---- MODULE Spec2Model ----
(***************************************************************************)
(* Host scoring of the renter's host database (package hostdb): the seven  *)
(* adjustments, the weight function built by calculateHostWeightFn and the *)
(* score breakdowns.                                                       *)
(*                                                                         *)
(* Number representation.  TLC's integers are 32 bits wide, the program's  *)
(* are not, so the model carries its own arithmetic:                       *)
(*   - types.Currency, uint64, time.Time and time.Duration values are      *)
(*     arbitrary-precision naturals: sequences of limbs, least significant *)
(*     limb first, without leading zero limbs (zero is << >>);             *)
(*   - a float64 is a binary floating point number [m, e] of value         *)
(*     m * 2^e whose significand m has MantBits bits (the program's has    *)
(*     53) and whose exponent is unbounded; every operation rounds to      *)
(*     nearest, ties to even, as IEEE 754 does.                            *)
(***************************************************************************)
EXTENDS Integers, Sequences, FiniteSets, TLC

\* Width of a float64 significand in the model.
MantBits == 14

\* Width of one limb of an arbitrary-precision natural.
LimbBits == 15

LimbBase == 2^LimbBits

----------------------------------------------------------------------------
(* Arbitrary-precision naturals (math/big.Int behind types.Currency).      *)

RECURSIVE BitLen(_)
BitLen(n) == IF n = 0 THEN 0 ELSE 1 + BitLen(n \div 2)

RECURSIVE BStrip(_)
BStrip(a) ==
    IF a = <<>> THEN <<>>
    ELSE IF a[Len(a)] = 0 THEN BStrip(SubSeq(a, 1, Len(a) - 1))
    ELSE a

RECURSIVE BFromNat(_)
BFromNat(n) ==
    IF n = 0 THEN <<>> ELSE <<n % LimbBase>> \o BFromNat(n \div LimbBase)

BLimb(a, i) == IF i <= Len(a) THEN a[i] ELSE 0

RECURSIVE BCmpFrom(_, _, _)
BCmpFrom(a, b, i) ==
    IF i = 0 THEN 0
    ELSE IF a[i] < b[i] THEN -1
    ELSE IF a[i] > b[i] THEN 1
    ELSE BCmpFrom(a, b, i - 1)

\* Currency.Cmp: -1, 0 or 1.
Cmp(a, b) ==
    IF Len(a) < Len(b) THEN -1
    ELSE IF Len(a) > Len(b) THEN 1
    ELSE BCmpFrom(a, b, Len(a))

RECURSIVE BAddC(_, _, _, _)
BAddC(a, b, i, c) ==
    IF i > Len(a) /\ i > Len(b)
    THEN (IF c = 0 THEN <<>> ELSE <<c>>)
    ELSE LET s == BLimb(a, i) + BLimb(b, i) + c
         IN  <<s % LimbBase>> \o BAddC(a, b, i + 1, s \div LimbBase)

\* Currency.Add.
Add(a, b) == BAddC(a, b, 1, 0)

RECURSIVE BSubC(_, _, _, _)
BSubC(a, b, i, c) ==
    IF i > Len(a) THEN <<>>
    ELSE LET s == a[i] - BLimb(b, i) - c
         IN  IF s < 0
             THEN <<s + LimbBase>> \o BSubC(a, b, i + 1, 1)
             ELSE <<s>> \o BSubC(a, b, i + 1, 0)

\* a - b for a >= b (time.Time.Sub of two ordered instants).
Sub(a, b) == BStrip(BSubC(a, b, 1, 0))

RECURSIVE BMulSmallC(_, _, _, _)
BMulSmallC(a, k, i, c) ==
    IF i > Len(a)
    THEN (IF c = 0 THEN <<>> ELSE <<c>>)
    ELSE LET s == a[i] * k + c
         IN  <<s % LimbBase>> \o BMulSmallC(a, k, i + 1, s \div LimbBase)

\* a * k for one limb k.
BMulSmall(a, k) == IF k = 0 THEN <<>> ELSE BMulSmallC(a, k, 1, 0)

RECURSIVE BMulFrom(_, _, _)
BMulFrom(a, b, i) ==
    IF i > Len(b) THEN <<>>
    ELSE LET rest == BMulFrom(a, b, i + 1)
             cur  == BMulSmall(a, b[i])
         IN  IF rest = <<>> THEN cur
             ELSE IF cur = <<>> THEN <<0>> \o rest
             ELSE Add(cur, <<0>> \o rest)

\* Currency.Mul and Currency.Mul64.
Mul(a, b) == IF a = <<>> \/ b = <<>> THEN <<>> ELSE BMulFrom(a, b, 1)

Mul64(a, u) == Mul(a, u)

\* a^n by repeated squaring.
RECURSIVE BPow(_, _)
BPow(a, n) ==
    IF n = 0 THEN <<1>>
    ELSE LET h  == BPow(a, n \div 2)
             h2 == Mul(h, h)
         IN  IF n % 2 = 1 THEN Mul(h2, a) ELSE h2

\* n * 10^k as a natural, for the program's decimal literals.
Dec(n, k) == Mul(BFromNat(n), BPow(<<10>>, k))

BBitLen(a) == IF a = <<>> THEN 0 ELSE LimbBits * (Len(a) - 1) + BitLen(a[Len(a)])

\* Bit i (from 0) of a.
BBit(a, i) == (BLimb(a, (i \div LimbBits) + 1) \div 2^(i % LimbBits)) % 2

\* a * 2^k.
BShl(a, k) ==
    IF a = <<>> THEN <<>>
    ELSE [j \in 1..(k \div LimbBits) |-> 0] \o BMulSmallC(a, 2^(k % LimbBits), 1, 0)

\* floor(a / 2^k).
BShr(a, k) ==
    LET drop == k \div LimbBits
        r    == k % LimbBits
        n    == Len(a) - drop
    IN  IF n <= 0 THEN <<>>
        ELSE BStrip([j \in 1..n |->
                        (a[j + drop] \div 2^r)
                        + (BLimb(a, j + drop + 1) % 2^r) * 2^(LimbBits - r)])

\* The largest d in lo..hi with b * d <= cur (lo is known to satisfy it).
RECURSIVE QSearch(_, _, _, _)
QSearch(cur, b, lo, hi) ==
    IF lo = hi THEN lo
    ELSE LET mid == (lo + hi + 1) \div 2
         IN  IF Cmp(BMulSmall(b, mid), cur) <= 0
             THEN QSearch(cur, b, mid, hi)
             ELSE QSearch(cur, b, lo, mid - 1)

\* Long division, one limb of the dividend at a time from the top: the
\* quotient and remainder of the number made of limbs i.. of a.
RECURSIVE BDivLimbs(_, _, _)
BDivLimbs(a, b, i) ==
    IF i > Len(a) THEN [q |-> <<>>, r |-> <<>>]
    ELSE LET up == BDivLimbs(a, b, i + 1)
         IN  IF up.r = <<>> /\ a[i] = 0
             THEN [q |-> IF up.q = <<>> THEN <<>> ELSE <<0>> \o up.q, r |-> <<>>]
             ELSE LET cur == <<a[i]>> \o up.r
                      d   == IF Cmp(cur, b) < 0 THEN 0
                             ELSE QSearch(cur, b, 1, LimbBase - 1)
                  IN  [q |-> IF up.q = <<>> /\ d = 0 THEN <<>> ELSE <<d>> \o up.q,
                       r |-> IF d = 0 THEN cur ELSE Sub(cur, BMulSmall(b, d))]

\* Currency.Div and Currency.Div64: floor(a / b); b = 0 panics in the
\* program (big.Int division by zero) and is never evaluated here.
Div(a, b) == BDivLimbs(a, b, 1).q

Div64(a, u) == Div(a, u)

IsZero(a) == a = <<>>

NewCurrency64(n) == BFromNat(n)

\* The value of a natural of at most two limbs as a TLC integer.
BToNat(a) == BLimb(a, 1) + BLimb(a, 2) * LimbBase

\* math.MaxUint64.
MaxUint64 == Sub(BShl(<<1>>, 64), <<1>>)

----------------------------------------------------------------------------
(* float64: [m, e] stands for m * 2^e; m = 0, or 2^(MantBits-1) <= |m| <   *)
(* 2^MantBits.  NaN and the infinities are not represented: the scoring    *)
(* code never divides by a zero float and never overflows the exponent.    *)

FZero == [m |-> 0, e |-> 0]

\* n * 2^e (n > 0) rounded to MantBits bits, to nearest, ties to even;
\* sticky says that bits below n were already dropped.
FRound(n, e, sticky) ==
    LET L == BitLen(n)
    IN  IF L <= MantBits
        THEN [m |-> n * 2^(MantBits - L), e |-> e - (MantBits - L)]
        ELSE LET s    == L - MantBits
                 q    == n \div 2^s
                 r    == n % 2^s
                 half == 2^(s - 1)
                 up   == r > half \/ (r = half /\ (sticky \/ q % 2 = 1))
                 q1   == IF up THEN q + 1 ELSE q
             IN  IF q1 = 2^MantBits
                 THEN [m |-> 2^(MantBits - 1), e |-> e + s + 1]
                 ELSE [m |-> q1, e |-> e + s]

FAbsM(a) == IF a.m < 0 THEN -a.m ELSE a.m

FNeg(a) == [m |-> -a.m, e |-> a.e]

FSigned(neg, a) == IF neg THEN FNeg(a) ELSE a

\* float64(n) for a small natural n.
FromNat(n) == IF n = 0 THEN FZero ELSE FRound(n, 0, FALSE)

FOne == FromNat(1)

\* float64(u) for a uint64 (or a time.Duration) u.
FromBig(u) ==
    LET L == BBitLen(u)
    IN  IF L = 0 THEN FZero
        ELSE IF L <= 2 * LimbBits THEN FRound(BToNat(u), 0, FALSE)
        ELSE LET s   == L - (MantBits + 2)
                 top == BShr(u, s)
             IN  FRound(BToNat(top), s, BShl(top, s) # u)

\* x * y.
FMul(a, b) ==
    IF a.m = 0 \/ b.m = 0 THEN FZero
    ELSE FSigned((a.m < 0) # (b.m < 0),
                 FRound(FAbsM(a) * FAbsM(b), a.e + b.e, FALSE))

\* x / y for y # 0.
FDiv(a, b) ==
    IF a.m = 0 THEN FZero
    ELSE LET n0 == FAbsM(a) * 2^MantBits
             d  == FAbsM(b)
             q  == n0 \div d
             r  == n0 % d
             q2 == 2 * q + (IF 2 * r >= d THEN 1 ELSE 0)
             r2 == IF 2 * r >= d THEN 2 * r - d ELSE 2 * r
         IN  FSigned((a.m < 0) # (b.m < 0),
                     FRound(q2, a.e - b.e - MantBits - 1, r2 # 0))

\* x + y.  An addend below a quarter of the other's last place is
\* replaced by a quarter of it: the sum rounds the same way.
FAdd(a, b) ==
    IF a.m = 0 THEN b
    ELSE IF b.m = 0 THEN a
    ELSE LET hi == IF a.e >= b.e THEN a ELSE b
             lo == IF a.e >= b.e THEN b ELSE a
             d  == hi.e - lo.e
             n  == IF d <= MantBits
                   THEN hi.m * 2^d + lo.m
                   ELSE hi.m * 4 + (IF lo.m < 0 THEN -1 ELSE 1)
             ne == IF d <= MantBits THEN lo.e ELSE hi.e - 2
         IN  IF n = 0 THEN FZero
             ELSE FSigned(n < 0, FRound(IF n < 0 THEN -n ELSE n, ne, d > MantBits))

\* x - y.
FSub(a, b) == FAdd(a, FNeg(b))

FMagLess(a, b) == a.e < b.e \/ (a.e = b.e /\ FAbsM(a) < FAbsM(b))

\* x < y.
FLess(a, b) ==
    IF a.m = 0 THEN b.m > 0
    ELSE IF b.m = 0 THEN a.m < 0
    ELSE IF a.m < 0 THEN (b.m > 0 \/ FMagLess(b, a))
    ELSE b.m > 0 /\ FMagLess(a, b)

\* x <= y.
FLeq(a, b) == ~FLess(b, a)

\* math.Min.
FMin(a, b) == IF FLess(b, a) THEN b ELSE a

\* The decimal literal n/d (0.85 is FLit(85, 100)).
FLit(n, d) == FDiv(FromNat(n), FromNat(d))

\* floor(sqrt(n)) within lo..hi.
RECURSIVE ISqrt(_, _, _)
ISqrt(n, lo, hi) ==
    IF lo = hi THEN lo
    ELSE LET mid == (lo + hi + 1) \div 2
         IN  IF mid * mid <= n THEN ISqrt(n, mid, hi) ELSE ISqrt(n, lo, mid - 1)

\* math.Sqrt(x) for x > 0, rounded to nearest.
FSqrt(a) ==
    LET k  == IF (a.e - MantBits) % 2 = 0 THEN MantBits ELSE MantBits - 1
        n  == a.m * 2^k
        s  == ISqrt(n, 2^(MantBits - 1), 2^MantBits - 1)
        s1 == IF n - s * s > s THEN s + 1 ELSE s
    IN  IF s1 = 2^MantBits
        THEN [m |-> 2^(MantBits - 1), e |-> ((a.e - k) \div 2) + 1]
        ELSE [m |-> s1, e |-> (a.e - k) \div 2]

\* x^n for a natural n, by repeated squaring.
RECURSIVE FPowInt(_, _)
FPowInt(a, n) ==
    IF n = 0 THEN FOne
    ELSE LET h  == FPowInt(a, n \div 2)
             h2 == FMul(h, h)
         IN  IF n % 2 = 1 THEN FMul(h2, a) ELSE h2

\* x^f for the fraction f = (m mod 2^k) / 2^k: the product of the roots
\* x^(1/2^j) over the binary digits j = from..k of f that are set, where
\* root = x^(1/2^(from-1)).
RECURSIVE FPowFrac(_, _, _, _)
FPowFrac(root, m, k, from) ==
    IF from > k THEN FOne
    ELSE LET s    == FSqrt(root)
             rest == FPowFrac(s, m, k, from + 1)
             set  == k - from < MantBits /\ (m \div 2^(k - from)) % 2 = 1
         IN  IF set THEN FMul(s, rest) ELSE rest

\* math.Pow(x, y) for x >= 0 and y >= 0.
Pow(x, y) ==
    IF y.m = 0 THEN FOne
    ELSE IF x = FOne THEN FOne
    ELSE IF x.m = 0 THEN FZero
    ELSE IF y.e >= 0 THEN FPowInt(x, y.m * 2^y.e)
    ELSE LET k  == -y.e
             yi == IF k >= MantBits THEN 0 ELSE y.m \div 2^k
         IN  FMul(FPowInt(x, yi), FPowFrac(x, y.m, k, 1))

\* Currency.MulFloat: floor(c * y) for y >= 0.
MulFloat(c, y) ==
    IF y.m = 0 THEN <<>>
    ELSE LET p == BMulSmall(c, y.m)
         IN  IF y.e >= 0 THEN BShl(p, y.e) ELSE BShr(p, -y.e)

\* Currency.Uint64: the value and whether it overflowed 64 bits.
Uint64(c) ==
    IF Cmp(c, MaxUint64) > 0 THEN [u |-> <<>>, err |-> TRUE]
    ELSE [u |-> c, err |-> FALSE]

----------------------------------------------------------------------------
(* State.                                                                  *)

VARIABLES
    release,      \* the build the constants are selected for (build.Release)
    blockHeight,  \* hdb.blockHeight
    allowance,    \* the modules.Allowance the weight function is built for
    entry,        \* the modules.HostDBEntry being scored
    expected,     \* the expectedStorage argument of a direct call
    res,          \* what the last scoring call returned (None before one)
    prev,         \* the entry and result before the entry's last update
    activeHosts,  \* hdb.ActiveHosts(): the entries of the active hosts
    height,       \* api.cs.Height(): the height of the consensus set
    contracts,    \* api.renter.Contracts()
    oldContracts, \* api.renter.OldContracts(): the archived contracts
    settings,     \* api.renter.Settings()
    listener,     \* srv.listener: how many times it was closed
    wg,           \* srv.wg: the counter of the WaitGroup
    serve,        \* where the call of Server.Serve stands
    sigpc,        \* where the signal goroutine of Serve stands
    closers,      \* where each call of Server.Close stands
    mods,         \* srv.api.*: the modules, and how often each was closed
    envpc,        \* where CreateEnvironment stands
    blockChan,    \* e.blockChan
    transactionChan, \* e.transactionChan
    listeners,    \* the goroutines running e.listen(), and what each is at
    rpcs,         \* where the RPC call handing over each item stands
    envlog,       \* the items enqueued and the items processed, in order
    poolSettings  \* api.pool.InternalSettings()

\* The variables of the renter and of the consensus set.
renterVars == <<height, contracts, oldContracts, settings>>

\* The variables of the API server (Server, its goroutines and its modules).
serverVars == <<listener, wg, serve, sigpc, closers, mods>>

\* The variables of the Environment (its RPC server, channels and listener).
envVars == <<envpc, blockChan, transactionChan, listeners, rpcs, envlog>>

\* The variables of the mining pool.
poolVars == <<poolSettings>>

vars == <<release, blockHeight, allowance, entry, expected, res, prev,
          activeHosts, renterVars,
          serverVars,
          envVars,
          poolVars>>

None == [none |-> TRUE]

\* The modules.RenterSettings of a renter that was never configured: the
\* zero value of every field.
ZeroSettings ==
    [Allowance |-> [Funds |-> <<>>, Hosts |-> 0, Period |-> 0,
                    RenewWindow |-> 0, ExpectedStorage |-> 0,
                    ExpectedUpload |-> 0, ExpectedDownload |-> 0,
                    ExpectedRedundancy |-> FZero],
     MaxDownloadSpeed |-> 0,
     MaxUploadSpeed |-> 0,
     StreamCacheSize |-> 0,
     IPViolationsCheck |-> FALSE]

\* A node at height 0 whose renter has no contracts and no settings.
RenterUnset ==
    /\ height = 0
    /\ contracts = <<>>
    /\ oldContracts = <<>>
    /\ settings = ZeroSettings

\* modules.PoolInternalSettings{}: the zero value.
ZeroPoolSettings ==
    [PoolName |-> <<>>, PoolWallet |-> <<>>, PoolNetworkPort |-> 0,
     PoolID |-> <<>>, PoolDBConnection |-> <<>>]

\* A node whose pool has the zero settings.
PoolUnset ==
    /\ poolSettings = ZeroPoolSettings

\* A node whose Environment has not been created.
EnvUnset ==
    /\ envpc = "start"
    /\ blockChan = <<>>
    /\ transactionChan = <<>>
    /\ listeners = <<>>
    /\ rpcs = <<>>
    /\ envlog = <<>>

\* A node whose API server has not been constructed.
ServerUnset ==
    /\ listener = [closes |-> 0]
    /\ wg = 0
    /\ serve = "idle"
    /\ sigpc = "idle"
    /\ closers = <<>>
    /\ mods = <<>>

----------------------------------------------------------------------------
(* Package constants.                                                      *)

\* types.SiacoinPrecision: one coin in base units.
SiacoinPrecision == Dec(1, 24)

baseWeight == Dec(1, 80)

collateralExponentiationLarge == FLit(65, 100)

priceExponentiation == FromNat(5)

collateralExponentiationSmall == FAdd(priceExponentiation, FLit(5, 10))

tbMonth == Mul(BFromNat(4032), Dec(1, 12))

minTotalPrice == Div64(Mul64(SiacoinPrecision, <<1>>), tbMonth)

priceDivNormalization == Div64(Div64(SiacoinPrecision, Dec(100, 3)), tbMonth)

\* build.Select over the three builds.
requiredStorage ==
    CASE release = "standard" -> Dec(20, 9)
      [] release = "dev"      -> Dec(1, 6)
      [] release = "testing"  -> Dec(1, 3)

\* The values calculateHostWeightFn, EstimateHostScore and ScoreBreakdown fix.
expectedStorage == Dec(25, 9)

expectedUploadFrequency == BFromNat(24192)

expectedDownloadFrequency == BFromNat(12096)

----------------------------------------------------------------------------
(* The adjustments.  A function whose local variable is read more than     *)
(* once is split where that variable is assigned: the operator for the     *)
(* rest of the function takes the variable as a parameter.                 *)

\* collateralAdjustments from the normalisation on: collateral64, cutoff64
\* (before its zero test), ratio, smallWeight, largeWeight and weight.
collateralWeight(hostCollateral, cutoff, collateral64, cutoff64a) ==
    LET cutoff64 == IF cutoff64a = <<>> THEN <<1>> ELSE cutoff64a
        ratio == FDiv(FromBig(collateral64), FromBig(cutoff64))
        smallWeight == Pow(FromBig(cutoff64), collateralExponentiationSmall)
        largeWeight == Pow(ratio, collateralExponentiationLarge)
    IN  [hostCollateral |-> hostCollateral,
         cutoff |-> cutoff,
         collateral64 |-> collateral64,
         cutoff64 |-> cutoff64,
         ratio |-> ratio,
         weight |-> FMul(smallWeight, largeWeight)]

\* collateralAdjustments once cutoff has its final value.
collateralNormalize(hostCollateral, cutoff) ==
    collateralWeight(hostCollateral, cutoff,
                     Uint64(Div(hostCollateral, priceDivNormalization)).u,
                     Uint64(Div(cutoff, priceDivNormalization)).u)

\* collateralAdjustments from the comparison of cutoff with hostCollateral.
collateralCutoff(hostCollateral, cutoff) ==
    collateralNormalize(hostCollateral,
                        IF Cmp(cutoff, hostCollateral) < 0
                        THEN hostCollateral ELSE cutoff)

\* requiredCollateral of collateralAdjustments.
requiredCollateral(e, period, es) ==
    Mul64(Mul64(e.Collateral, BFromNat(period)), es)

\* collateralAdjustments, with its local variables.
collateralLocals(e, al, es0) ==
    LET hosts  == IF al.Hosts = 0 THEN 1 ELSE al.Hosts
        period == IF al.Period = 0 THEN 1 ELSE al.Period
        es     == IF es0 = <<>> THEN <<1>> ELSE es0
    IN  collateralCutoff(
            IF Cmp(requiredCollateral(e, period, es),
                   Div64(e.MaxCollateral, <<2>>)) < 0
            THEN Div64(Div64(Div64(e.MaxCollateral, BFromNat(period)), es), <<2>>)
            ELSE e.Collateral,
            Div64(Div64(Div64(Div64(al.Funds, BFromNat(hosts)),
                              BFromNat(period)), es), <<3>>))

collateralAdjustments(e, al, es) == collateralLocals(e, al, es).weight

\* interactionAdjustments with the failed interactions above the line.
interactionAdjustmentsFailed(e) ==
    LET hsi   == e.HistoricSuccessfulInteractions + 30
        hfi   == e.HistoricFailedInteractions + 1
        ratio == FDiv(FromNat(hfi), FromNat(hsi + hfi))
    IN  Pow(ratio, FromNat(15))

interactionAdjustments(e) ==
    LET hsi   == e.HistoricSuccessfulInteractions + 30
        hfi   == e.HistoricFailedInteractions + 1
        ratio == FDiv(FromNat(hsi), FromNat(hsi + hfi))
    IN  Pow(ratio, FromNat(15))

\* priceAdjustments divides by the period and the three expectations:
\* a zero one panics (big.Int division by zero).
pricePanics(al, es, euf, edf) ==
    al.Period = 0 \/ es = <<>> \/ euf = <<>> \/ edf = <<>>

\* priceAdjustments with the quotient of the two prices upside down.
priceWeightInverted(totalPrice, b, a) ==
    LET baseU64   == IF b.err THEN MaxUint64 ELSE b.u
        actualU64 == IF a.err THEN MaxUint64 ELSE a.u
    IN  [totalPrice |-> totalPrice,
         baseU64 |-> baseU64,
         actualU64 |-> actualU64,
         weight |-> Pow(FDiv(FromBig(actualU64), FromBig(baseU64)),
                        priceExponentiation)]

\* priceAdjustments from the conversions to uint64 on.
priceWeight(totalPrice, b, a) ==
    LET baseU64   == IF b.err THEN MaxUint64 ELSE b.u
        actualU64 == IF a.err THEN MaxUint64 ELSE a.u
        base   == FromBig(baseU64)
        actual == FromBig(actualU64)
    IN  [totalPrice |-> totalPrice,
         baseU64 |-> baseU64,
         actualU64 |-> actualU64,
         weight |-> Pow(FDiv(base, actual), priceExponentiation)]

\* priceAdjustments without the minimum on the price.
priceMinimumNone(totalPrice, min) ==
    priceWeight(totalPrice,
                Uint64(Div(min, priceDivNormalization)),
                Uint64(Div(totalPrice, priceDivNormalization)))

\* priceAdjustments from the minimum on the price on.
priceMinimum(totalPrice, min) ==
    priceWeight(IF Cmp(totalPrice, min) < 0 THEN min ELSE totalPrice,
                Uint64(Div(min, priceDivNormalization)),
                Uint64(Div(IF Cmp(totalPrice, min) < 0 THEN min ELSE totalPrice,
                           priceDivNormalization)))

\* priceAdjustments, with its local variables (when it does not panic).
priceLocals(e, al, es, euf, edf) ==
    LET adjustedContractPrice == Div64(Div64(e.ContractPrice, BFromNat(al.Period)), es)
        adjustedUploadPrice   == Div64(e.UploadBandwidthPrice, euf)
        adjustedDownloadPrice == Div64(Div64(e.DownloadBandwidthPrice, edf), <<3>>)
    IN  priceMinimum(Add(Add(Add(e.StoragePrice, adjustedContractPrice),
                             adjustedUploadPrice), adjustedDownloadPrice),
                     minTotalPrice)

priceAdjustments(e, al, es, euf, edf) == priceLocals(e, al, es, euf, edf).weight

\* The multiples of requiredStorage storageRemainingAdjustments tests, in
\* the order it tests them.
StorageSteps == <<200, 150, 100, 80, 40, 20, 15, 10, 5, 3, 2, 1>>

\* One test of storageRemainingAdjustments with the comparison turned round.
storageStepTurned(e, base, t) ==
    IF Cmp(e.RemainingStorage, Mul(BFromNat(t), requiredStorage)) > 0
    THEN FDiv(base, FromNat(2))
    ELSE base

\* One test of storageRemainingAdjustments that also halves at the
\* threshold itself.
storageStepInclusive(e, base, t) ==
    IF Cmp(e.RemainingStorage, Mul(BFromNat(t), requiredStorage)) <= 0
    THEN FDiv(base, FromNat(2))
    ELSE base

\* One test of storageRemainingAdjustments.
storageStep(e, base, t) ==
    IF Cmp(e.RemainingStorage, Mul(BFromNat(t), requiredStorage)) < 0
    THEN FDiv(base, FromNat(2))
    ELSE base

\* base after the first n tests of storageRemainingAdjustments.
RECURSIVE storageBase(_, _)
storageBase(e, n) ==
    IF n = 0 THEN FOne
    ELSE storageStep(e, storageBase(e, n - 1), StorageSteps[n])

storageRemainingAdjustments(e) == storageBase(e, Len(StorageSteps))

\* build.VersionCmp on versions of three numbers: below 0, 0 or above 0.
VersionCmp(a, b) ==
    IF a[1] # b[1] THEN a[1] - b[1]
    ELSE IF a[2] # b[2] THEN a[2] - b[2]
    ELSE a[3] - b[3]

\* math.SmallestNonzeroFloat64.
SmallestNonzeroFloat64 == [m |-> 2^(MantBits - 1), e |-> -1073 - MantBits]

\* versionAdjustments with the table that the source comments out.
versionAdjustmentsTable(e) ==
    IF VersionCmp(e.Version, <<1, 3, 1>>) < 0 THEN SmallestNonzeroFloat64
    ELSE IF VersionCmp(e.Version, <<1, 3, 2>>) < 0
         THEN FMul(FMul(FOne, FLit(99999, 100000)), FLit(9, 10))
    ELSE IF VersionCmp(e.Version, <<1, 4, 0>>) < 0
         THEN FMul(FOne, FLit(99999, 100000))
    ELSE FOne

\* The version table is commented out in the source: base stays 1.
versionAdjustments(e) == FOne

\* The ages lifetimeAdjustments tests, in the order it tests them, and
\* what it does to base below each: base * mul / div.
LifetimeSteps ==
    <<[age |-> 12000, mul |-> 2, div |-> 3],
      [age |-> 6000, mul |-> 1, div |-> 2],
      [age |-> 4000, mul |-> 1, div |-> 2],
      [age |-> 2000, mul |-> 1, div |-> 2],
      [age |-> 1000, mul |-> 1, div |-> 3],
      [age |-> 576, mul |-> 1, div |-> 3],
      [age |-> 288, mul |-> 1, div |-> 3],
      [age |-> 144, mul |-> 1, div |-> 3]>>

\* One test of lifetimeAdjustments that also penalises at the age itself.
lifetimeStepInclusive(age, base, step) ==
    IF age <= step.age
    THEN (IF step.mul = 1
          THEN FDiv(base, FromNat(step.div))
          ELSE FDiv(FMul(base, FromNat(step.mul)), FromNat(step.div)))
    ELSE base

\* One test of lifetimeAdjustments.
lifetimeStep(age, base, step) ==
    IF age < step.age
    THEN (IF step.mul = 1
          THEN FDiv(base, FromNat(step.div))
          ELSE FDiv(FMul(base, FromNat(step.mul)), FromNat(step.div)))
    ELSE base

\* base after the first n tests of lifetimeAdjustments.
RECURSIVE lifetimeBase(_, _)
lifetimeBase(age, n) ==
    IF n = 0 THEN FOne
    ELSE lifetimeStep(age, lifetimeBase(age, n - 1), LifetimeSteps[n])

lifetimeAdjustments(e) ==
    IF blockHeight >= e.FirstSeen
    THEN lifetimeBase(blockHeight - e.FirstSeen, Len(LifetimeSteps))
    ELSE FOne

\* One iteration of the loop of uptimeAdjustments that attributes the
\* interval by the success of the later scan.
uptimeStepLater(p, scan) ==
    IF Cmp(p.recentTime, scan.Timestamp) > 0
    THEN p
    ELSE [uptime        |-> IF scan.Success
                            THEN Add(p.uptime, Sub(scan.Timestamp, p.recentTime))
                            ELSE p.uptime,
          downtime      |-> IF scan.Success
                            THEN p.downtime
                            ELSE Add(p.downtime, Sub(scan.Timestamp, p.recentTime)),
          recentTime    |-> scan.Timestamp,
          recentSuccess |-> scan.Success]

\* One iteration of the loop of uptimeAdjustments over ScanHistory[1:].
uptimeStep(p, scan) ==
    IF Cmp(p.recentTime, scan.Timestamp) > 0
    THEN p
    ELSE [uptime        |-> IF p.recentSuccess
                            THEN Add(p.uptime, Sub(scan.Timestamp, p.recentTime))
                            ELSE p.uptime,
          downtime      |-> IF p.recentSuccess
                            THEN p.downtime
                            ELSE Add(p.downtime, Sub(scan.Timestamp, p.recentTime)),
          recentTime    |-> scan.Timestamp,
          recentSuccess |-> scan.Success]

\* The loop's variables after its iterations over ScanHistory[lo..hi],
\* entered with the variables p.  The iterations run in order; the range is
\* halved so that TLC, which evaluates lazily on a bounded stack, has the
\* variables q of the first half in hand before it enters the second.
RECURSIVE uptimeRange(_, _, _, _)
uptimeRange(e, p, lo, hi) ==
    IF lo > hi THEN p
    ELSE IF lo = hi THEN uptimeStep(p, e.ScanHistory[lo])
    ELSE LET mid == (lo + hi) \div 2
             q   == uptimeRange(e, p, lo, mid)
         IN  IF q.recentSuccess \in BOOLEAN
             THEN uptimeRange(e, q, mid + 1, hi)
             ELSE q

\* The loop's variables after the loop over ScanHistory[1:].
uptimeLoop(e, n) ==
    uptimeRange(e,
                [uptime        |-> e.HistoricUptime,
                 downtime      |-> e.HistoricDowntime,
                 recentTime    |-> e.ScanHistory[1].Timestamp,
                 recentSuccess |-> e.ScanHistory[1].Success],
                2, n)

\* uptimeAdjustments from the computation of exp on.
uptimePow(uptimeRatio) ==
    Pow(uptimeRatio,
        FMul(FromNat(200), FMin(FSub(FOne, uptimeRatio), FLit(30, 100))))

\* uptimeAdjustments from the cap on the allowed downtime on.
uptimeFloor(uptimeRatio, allowedDowntime) ==
    uptimePow(IF FLess(uptimeRatio, FSub(FOne, allowedDowntime))
              THEN FSub(FOne, allowedDowntime)
              ELSE uptimeRatio)

\* uptimeAdjustments without the shift of the ratio by 0.02.
uptimeShiftNone(uptimeRatio, n) ==
    uptimeFloor(IF FLess(FLit(98, 100), uptimeRatio)
                THEN FLit(98, 100) ELSE uptimeRatio,
                FMul(FLit(3, 100), FromNat(n)))

\* uptimeAdjustments from the cap of the ratio at 0.98 on.
uptimeShift(uptimeRatio, n) ==
    uptimeFloor(FAdd(IF FLess(FLit(98, 100), uptimeRatio)
                     THEN FLit(98, 100) ELSE uptimeRatio,
                     FLit(2, 100)),
                FMul(FLit(3, 100), FromNat(n)))

\* uptimeAdjustments after the sanity check: the penalty for the measured
\* uptime and downtime of a history of n scans.
uptimePenalty(uptime, downtime, n) ==
    uptimeShift(FDiv(FromBig(uptime), FromBig(Add(uptime, downtime))), n)

\* uptimeAdjustments whose sanity check fires when either total is zero.
uptimeMeasuredEither(t, n) ==
    [measured |-> TRUE,
     uptime   |-> t.uptime,
     downtime |-> t.downtime,
     weight   |-> IF t.uptime = <<>> \/ t.downtime = <<>>
                  THEN FLit(1, 1000)
                  ELSE uptimePenalty(t.uptime, t.downtime, n)]

\* uptimeAdjustments after its loop.
uptimeMeasured(t, n) ==
    [measured |-> TRUE,
     uptime   |-> t.uptime,
     downtime |-> t.downtime,
     weight   |-> IF t.uptime = <<>> /\ t.downtime = <<>>
                  THEN FLit(1, 1000)
                  ELSE uptimePenalty(t.uptime, t.downtime, n)]

\* uptimeAdjustments, with the totals it measured.
uptimeLocals(e) ==
    LET n == Len(e.ScanHistory)
        h == e.ScanHistory
    IN  IF n = 0 THEN [measured |-> FALSE, weight |-> FLit(25, 100)]
        ELSE IF n = 1
        THEN [measured |-> FALSE,
              weight |-> IF h[1].Success THEN FLit(75, 100) ELSE FLit(25, 100)]
        ELSE IF n = 2
        THEN [measured |-> FALSE,
              weight |-> IF h[1].Success /\ h[2].Success THEN FLit(85, 100)
                         ELSE IF h[1].Success \/ h[2].Success THEN FLit(50, 100)
                         ELSE FLit(5, 100)]
        ELSE uptimeMeasured(uptimeLoop(e, n), n)

uptimeAdjustments(e) == uptimeLocals(e).weight

\* The product of the seven adjustments.
fullPenalty(f) ==
    FMul(FMul(FMul(FMul(FMul(FMul(f.collateralReward, f.interactionPenalty),
                             f.lifetimePenalty), f.pricePenalty),
                   f.storageRemainingPenalty), f.uptimePenalty), f.versionPenalty)

\* The weight function without its test for a zero weight.
weightReturnUnclamped(f, full, weight) ==
    [panic |-> FALSE, factors |-> f, fullPenalty |-> full, weight |-> weight]

\* The function calculateHostWeightFn returns, from the conversion of the
\* product to a types.Currency on.
weightReturn(f, full, weight) ==
    [panic |-> FALSE, factors |-> f, fullPenalty |-> full,
     weight |-> IF IsZero(weight) THEN NewCurrency64(1) ELSE weight]

\* The function calculateHostWeightFn returns, once the adjustments are known.
weightCombine(f) ==
    weightReturn(f, fullPenalty(f), MulFloat(baseWeight, fullPenalty(f)))

\* The function calculateHostWeightFn returns, with its local variables
\* (when priceAdjustments does not panic).
weightLocals(e, al) ==
    weightCombine(
        [collateralReward |-> collateralAdjustments(e, al, expectedStorage),
         interactionPenalty |-> interactionAdjustments(e),
         lifetimePenalty |-> lifetimeAdjustments(e),
         pricePenalty |-> priceAdjustments(e, al, expectedStorage,
                                           expectedUploadFrequency,
                                           expectedDownloadFrequency),
         storageRemainingPenalty |-> storageRemainingAdjustments(e),
         uptimePenalty |-> uptimeAdjustments(e),
         versionPenalty |-> versionAdjustments(e)])

weightFunc(e, al) ==
    IF pricePanics(al, expectedStorage, expectedUploadFrequency,
                   expectedDownloadFrequency)
    THEN [panic |-> TRUE]
    ELSE weightLocals(e, al)

\* big.Rat.SetFrac(a, b).Float64() for b # 0: the float nearest to a / b.
RatFloat64(a, b) ==
    IF a = <<>> THEN FZero
    ELSE LET k   == MantBits + 2 + BBitLen(b) - BBitLen(a)
             num == IF k >= 0 THEN BShl(a, k) ELSE a
             den == IF k >= 0 THEN b ELSE BShl(b, -k)
             q   == Div(num, den)
         IN  FRound(BToNat(q), -k, Mul(q, den) # num)

\* calculateConversionRate: the sum of the weights of hosts[i..].
RECURSIVE totalScore(_, _, _)
totalScore(hosts, al, i) ==
    IF i > Len(hosts) THEN <<>>
    ELSE Add(weightFunc(hosts[i], al).weight, totalScore(hosts, al, i + 1))

\* calculateConversionRate without the cap at 100.
conversionUncapped(conversionRate) == conversionRate

\* calculateConversionRate from the cap on.
conversionCap(conversionRate) ==
    IF FLess(FromNat(100), conversionRate) THEN FromNat(100) ELSE conversionRate

\* calculateConversionRate from the test of the total on.
conversionTotal(score, total) ==
    conversionCap(RatFloat64(Mul64(score, BFromNat(50)),
                             IF IsZero(total) THEN NewCurrency64(1) ELSE total))

\* The weight function of an active host panics (hosts is not empty and
\* the allowance of the host database has a zero period).
conversionPanics(hosts, al) ==
    /\ hosts # <<>>
    /\ pricePanics(al, expectedStorage, expectedUploadFrequency,
                   expectedDownloadFrequency)

\* hdb.calculateConversionRate(score), when it does not panic: hosts is
\* hdb.ActiveHosts() and al the allowance hdb.weightFunc is built for.
calculateConversionRate(score, hosts, al) ==
    conversionTotal(score, totalScore(hosts, al, 1))

\* EstimateHostScore from its return statement on. The literal names no
\* InteractionAdjustment: the field has the zero value of a float64.
estimateBreakdown(c, p, s, v, score, hosts, hdbAl) ==
    IF conversionPanics(hosts, hdbAl) THEN [panic |-> TRUE]
    ELSE [panic |-> FALSE,
          Score |-> score,
          ConversionRate |-> calculateConversionRate(score, hosts, hdbAl),
          AgeAdjustment |-> FOne,
          BurnAdjustment |-> FOne,
          CollateralAdjustment |-> c,
          InteractionAdjustment |-> FZero,
          PriceAdjustment |-> p,
          StorageRemainingAdjustment |-> s,
          UptimeAdjustment |-> FOne,
          VersionAdjustment |-> v]

\* EstimateHostScore from the test of the estimated score on.
estimateReturn(c, p, s, v, estimatedScore, hosts, hdbAl) ==
    estimateBreakdown(c, p, s, v,
                      IF IsZero(estimatedScore) THEN NewCurrency64(1)
                      ELSE estimatedScore,
                      hosts, hdbAl)

\* EstimateHostScore with the interaction adjustment in the estimate.
estimateCombineInteraction(e, c, p, s, v, hosts, hdbAl) ==
    estimateReturn(c, p, s, v,
                   MulFloat(baseWeight,
                            FMul(FMul(FMul(FMul(c, p), s), v),
                                 interactionAdjustments(e))),
                   hosts, hdbAl)

\* EstimateHostScore from fullPenalty on.
estimateCombine(e, c, p, s, v, hosts, hdbAl) ==
    estimateReturn(c, p, s, v,
                   MulFloat(baseWeight, FMul(FMul(FMul(c, p), s), v)),
                   hosts, hdbAl)

\* hdb.EstimateHostScore(entry, allowance); hosts is hdb.ActiveHosts() and
\* hdbAl the allowance hdb.weightFunc is built for.
EstimateHostScore(e, al, hosts, hdbAl) ==
    IF pricePanics(al, expectedStorage, expectedUploadFrequency,
                   expectedDownloadFrequency)
    THEN [panic |-> TRUE]
    ELSE estimateCombine(e,
                         collateralAdjustments(e, al, expectedStorage),
                         priceAdjustments(e, al, expectedStorage,
                                          expectedUploadFrequency,
                                          expectedDownloadFrequency),
                         storageRemainingAdjustments(e),
                         versionAdjustments(e),
                         hosts, hdbAl)

\* ScoreBreakdown from its return statement on; score is hdb.weightFunc(entry).
scoreReturn(e, score, hosts, hdbAl) ==
    [panic |-> FALSE,
     Score |-> score,
     ConversionRate |-> calculateConversionRate(score, hosts, hdbAl),
     AgeAdjustment |-> lifetimeAdjustments(e),
     BurnAdjustment |-> FOne,
     CollateralAdjustment |-> collateralAdjustments(e, hdbAl, expectedStorage),
     InteractionAdjustment |-> interactionAdjustments(e),
     PriceAdjustment |-> priceAdjustments(e, hdbAl, expectedStorage,
                                          expectedUploadFrequency,
                                          expectedDownloadFrequency),
     StorageRemainingAdjustment |-> storageRemainingAdjustments(e),
     UptimeAdjustment |-> uptimeAdjustments(e),
     VersionAdjustment |-> versionAdjustments(e)]

\* hdb.ScoreBreakdown(entry).
ScoreBreakdown(e, hosts, hdbAl) ==
    IF pricePanics(hdbAl, expectedStorage, expectedUploadFrequency,
                   expectedDownloadFrequency)
    THEN [panic |-> TRUE]
    ELSE scoreReturn(e, weightFunc(e, hdbAl).weight, hosts, hdbAl)

----------------------------------------------------------------------------
(* Inputs.                                                                 *)

\* One hour as a time.Duration (nanoseconds).
Hour == Dec(3600, 9)

\* The instant k hours after the epoch of the model.
AtHour(k) == Mul(BFromNat(k), Hour)

Scan(k, ok) == [Timestamp |-> AtHour(k), Success |-> ok]

StandardStorage == Dec(20, 9)

DefaultEntry ==
    [Collateral |-> Dec(25, 9),
     MaxCollateral |-> Dec(5, 27),
     ContractPrice |-> Dec(1, 23),
     StoragePrice |-> minTotalPrice,
     UploadBandwidthPrice |-> Dec(1, 13),
     DownloadBandwidthPrice |-> <<>>,
     RemainingStorage |-> Mul(BFromNat(250), StandardStorage),
     FirstSeen |-> 0,
     HistoricUptime |-> <<>>,
     HistoricDowntime |-> <<>>,
     HistoricSuccessfulInteractions |-> 0,
     HistoricFailedInteractions |-> 0,
     ScanHistory |-> <<>>]

DefaultAllowance == [Funds |-> Dec(5, 26), Hosts |-> 50, Period |-> 6048]

Allowances ==
    {DefaultAllowance,
     [Funds |-> <<>>, Hosts |-> 1, Period |-> 1],
     [Funds |-> <<>>, Hosts |-> 0, Period |-> 0]}

\* A price so high that it does not fit 64 bits after normalisation.
HugePrice == Dec(1, 30)

StoragePrices ==
    {<<>>, minTotalPrice, Mul(<<2>>, minTotalPrice), Dec(1, 12), HugePrice}

RemainingStorages ==
    {<<>>,
     Sub(Mul(BFromNat(150), StandardStorage), <<1>>),
     Add(Mul(BFromNat(150), StandardStorage), <<1>>),
     Mul(BFromNat(250), StandardStorage)}

Histories ==
    {<<>>,
     <<Scan(1, TRUE), Scan(2, TRUE), Scan(3, TRUE)>>,
     <<Scan(1, TRUE), Scan(1, FALSE), Scan(1, FALSE)>>}

\* Collateral, max collateral, contract price and upload price of a host.
Offers ==
    {<<<<>>, <<>>, <<>>, <<>>>>,
     <<BFromNat(2480), <<>>, <<>>, <<>>>>,
     <<Dec(25, 9), Dec(5, 27), Dec(1, 23), Dec(1, 13)>>}

WeightEntries ==
    {[DefaultEntry EXCEPT !.Collateral = o[1], !.MaxCollateral = o[2],
                          !.ContractPrice = o[3], !.UploadBandwidthPrice = o[4],
                          !.StoragePrice = p, !.RemainingStorage = r,
                          !.ScanHistory = h] :
        o \in Offers, p \in {minTotalPrice, HugePrice},
        r \in {<<>>, Mul(BFromNat(250), StandardStorage)}, h \in Histories}

----------------------------------------------------------------------------
(* The weight function applied to an entry whose host updates one setting. *)

\* weightFunc(entry), the function calculateHostWeightFn(allowance) built.
HostWeight ==
    /\ res = None
    /\ res' = weightFunc(entry, allowance)
    /\ UNCHANGED <<release, blockHeight, allowance, entry, expected, prev, activeHosts,
                   renterVars, serverVars, envVars, poolVars>>

\* The host announces another storage price.
SetStoragePrice(p) ==
    /\ res # None
    /\ prev = None
    /\ p # entry.StoragePrice
    /\ prev' = [field |-> "StoragePrice", entry |-> entry, res |-> res]
    /\ entry' = [entry EXCEPT !.StoragePrice = p]
    /\ res' = None
    /\ UNCHANGED <<release, blockHeight, allowance, expected, activeHosts, renterVars, serverVars, envVars, poolVars>>

\* The host announces another amount of remaining storage.
SetRemainingStorage(r) ==
    /\ res # None
    /\ prev = None
    /\ r # entry.RemainingStorage
    /\ prev' = [field |-> "RemainingStorage", entry |-> entry, res |-> res]
    /\ entry' = [entry EXCEPT !.RemainingStorage = r]
    /\ res' = None
    /\ UNCHANGED <<release, blockHeight, allowance, expected, activeHosts, renterVars, serverVars, envVars, poolVars>>

Init ==
    /\ release = "standard"
    /\ blockHeight \in {100, 20000}
    /\ allowance \in Allowances
    /\ entry \in WeightEntries
    /\ expected = expectedStorage
    /\ res = None
    /\ prev = None
    /\ activeHosts = <<>>
    /\ RenterUnset
    /\ ServerUnset
    /\ EnvUnset
    /\ PoolUnset

Next ==
    \/ HostWeight
    \/ \E p \in StoragePrices : SetStoragePrice(p)
    \/ \E r \in RemainingStorages : SetRemainingStorage(r)

Spec == Init /\ [][Next]_vars

----------------------------------------------------------------------------
(* The weight function (Spec).                                             *)

\* The last call of the weight function returned a weight.
Returned == res # None /\ ~res.panic

\* C1: the weight the weight function returns is at least 1: it is the
\* base weight times the product of the seven adjustments of the entry,
\* truncated to an integer, and 1 when that integer is zero.
C1_WeightAtLeastOne ==
    Returned =>
        LET full == FMul(FMul(FMul(FMul(FMul(FMul(
                        collateralAdjustments(entry, allowance, expectedStorage),
                        interactionAdjustments(entry)),
                        lifetimeAdjustments(entry)),
                        priceAdjustments(entry, allowance, expectedStorage,
                                         expectedUploadFrequency,
                                         expectedDownloadFrequency)),
                        storageRemainingAdjustments(entry)),
                        uptimeAdjustments(entry)),
                        versionAdjustments(entry))
            raw  == MulFloat(baseWeight, full)
        IN  /\ Cmp(res.weight, <<1>>) >= 0
            /\ res.fullPenalty = full
            /\ res.weight = (IF raw = <<>> THEN <<1>> ELSE raw)

\* C1's case: a product of the adjustments that is not zero but whose
\* weight truncates to zero.
C1_Witness ==
    /\ Returned
    /\ res.fullPenalty.m # 0
    /\ MulFloat(baseWeight, res.fullPenalty) = <<>>
    /\ res.weight = <<1>>

\* The entry was scored, one field of it changed, and it was scored again.
Rescored(field) ==
    /\ prev # None
    /\ prev.field = field
    /\ Returned
    /\ ~prev.res.panic

\* C6: with a non-zero period, a lower storage price and nothing else
\* changed never gives a lower price adjustment nor a lower weight.
C6_LowerPriceNeverLowersWeight ==
    (Rescored("StoragePrice") /\ allowance.Period # 0) =>
        LET lower  == IF Cmp(entry.StoragePrice, prev.entry.StoragePrice) < 0
                      THEN res ELSE prev.res
            higher == IF Cmp(entry.StoragePrice, prev.entry.StoragePrice) < 0
                      THEN prev.res ELSE res
        IN  /\ FLeq(higher.factors.pricePenalty, lower.factors.pricePenalty)
            /\ Cmp(higher.weight, lower.weight) <= 0

\* C6's case: the storage price went down and both the price adjustment
\* and the weight went up.
C6_Witness ==
    /\ Rescored("StoragePrice")
    /\ allowance.Period # 0
    /\ Cmp(entry.StoragePrice, prev.entry.StoragePrice) < 0
    /\ FLess(prev.res.factors.pricePenalty, res.factors.pricePenalty)
    /\ Cmp(prev.res.weight, res.weight) < 0

\* C7: more remaining storage and nothing else changed never gives a lower
\* storage adjustment nor a lower weight.
C7_MoreStorageNeverLowersWeight ==
    Rescored("RemainingStorage") =>
        LET more == IF Cmp(entry.RemainingStorage, prev.entry.RemainingStorage) > 0
                    THEN res ELSE prev.res
            less == IF Cmp(entry.RemainingStorage, prev.entry.RemainingStorage) > 0
                    THEN prev.res ELSE res
        IN  /\ FLeq(less.factors.storageRemainingPenalty,
                    more.factors.storageRemainingPenalty)
            /\ Cmp(less.weight, more.weight) <= 0

\* C7's case: the remaining storage went up and both the storage
\* adjustment and the weight went up.
C7_Witness ==
    /\ Rescored("RemainingStorage")
    /\ Cmp(entry.RemainingStorage, prev.entry.RemainingStorage) > 0
    /\ FLess(prev.res.factors.storageRemainingPenalty,
             res.factors.storageRemainingPenalty)
    /\ Cmp(prev.res.weight, res.weight) < 0

----------------------------------------------------------------------------
(* collateralAdjustments called on its own (SpecCollateral).               *)

CollateralEntries ==
    {[DefaultEntry EXCEPT !.Collateral = c, !.MaxCollateral = m] :
        c \in {<<>>, <<1>>, BFromNat(2480), Dec(25, 9)},
        m \in {<<>>, <<10>>, Dec(5, 27)}}

CollateralAllowances ==
    {[Funds |-> f, Hosts |-> h, Period |-> p] :
        f \in {<<>>, Dec(5, 26)}, h \in {0, 50}, p \in {0, 1, 6048}}

\* hdb.collateralAdjustments(entry, allowance, expectedStorage).
CollateralAdjustments ==
    /\ res = None
    /\ res' = collateralLocals(entry, allowance, expected)
    /\ UNCHANGED <<release, blockHeight, allowance, entry, expected, prev, activeHosts,
                   renterVars, serverVars, envVars, poolVars>>

InitCollateral ==
    /\ release = "standard"
    /\ blockHeight = 0
    /\ allowance \in CollateralAllowances
    /\ entry \in CollateralEntries
    /\ expected \in {<<>>, <<1>>, expectedStorage}
    /\ res = None
    /\ prev = None
    /\ activeHosts = <<>>
    /\ RenterUnset
    /\ ServerUnset
    /\ EnvUnset
    /\ PoolUnset

NextCollateral == CollateralAdjustments

SpecCollateral == InitCollateral /\ [][NextCollateral]_vars

\* C2: the collateral used for scoring never exceeds the collateral the
\* host advertises.
C2_CollateralCapped ==
    res # None => Cmp(res.hostCollateral, entry.Collateral) <= 0

\* C3: the ratio raised to the large-collateral exponent is at least 1.
C3_RatioAtLeastOne ==
    res # None => FLeq(FOne, res.ratio)

----------------------------------------------------------------------------
(* uptimeAdjustments called on its own while the host is scanned           *)
(* (SpecUptime).                                                           *)

\* The longest scan history.
MaxScans == 4

\* The hours at which a scan can happen.
ScanHours == {0, 1, 2}

\* hdb.uptimeAdjustments(entry).
UptimeAdjustments ==
    /\ res = None
    /\ res' = uptimeLocals(entry)
    /\ UNCHANGED <<release, blockHeight, allowance, entry, expected, prev, activeHosts,
                   renterVars, serverVars, envVars, poolVars>>

\* A scan of the host is appended to its history.
AppendScan(k, ok) ==
    /\ res # None
    /\ Len(entry.ScanHistory) < MaxScans
    /\ prev' = [field |-> "ScanHistory", entry |-> entry, res |-> res]
    /\ entry' = [entry EXCEPT !.ScanHistory = Append(@, Scan(k, ok))]
    /\ res' = None
    /\ UNCHANGED <<release, blockHeight, allowance, expected, activeHosts, renterVars, serverVars, envVars, poolVars>>

InitUptime ==
    /\ release = "standard"
    /\ blockHeight = 0
    /\ allowance = DefaultAllowance
    /\ \E u \in {<<>>, Hour}, d \in {<<>>, AtHour(100)} :
          entry = [DefaultEntry EXCEPT !.HistoricUptime = u,
                                       !.HistoricDowntime = d]
    /\ expected = expectedStorage
    /\ res = None
    /\ prev = None
    /\ activeHosts = <<>>
    /\ RenterUnset
    /\ ServerUnset
    /\ EnvUnset
    /\ PoolUnset

NextUptime ==
    \/ UptimeAdjustments
    \/ \E k \in ScanHours, ok \in BOOLEAN : AppendScan(k, ok)

SpecUptime == InitUptime /\ [][NextUptime]_vars

AllSuccess(h) == \A i \in 1..Len(h) : h[i].Success

\* A successful scan, not earlier than the one before it, was appended to
\* an all-success history, and the uptime adjustment was computed before
\* and after.
AppendedSuccess ==
    /\ prev # None
    /\ res # None
    /\ AllSuccess(entry.ScanHistory)
    /\ LET h == entry.ScanHistory
       IN  Len(h) >= 2 => Cmp(h[Len(h) - 1].Timestamp, h[Len(h)].Timestamp) <= 0

\* C4 as stated: appending a successful scan that is not earlier than the
\* last one to an all-success history never decreases the uptime adjustment.
C4_AppendNeverDecreases ==
    AppendedSuccess => FLeq(prev.res.weight, res.weight)

\* C4, amended: it never decreases the uptime adjustment when the entry has
\* no historic downtime and, once the history has three scans, some uptime
\* has been measured.
C4_AppendNeverDecreasesMeasured ==
    (/\ AppendedSuccess
     /\ entry.HistoricDowntime = <<>>
     /\ (res.measured => res.uptime # <<>>))
        => FLeq(prev.res.weight, res.weight)

\* C4's case: the third successful scan of a host with measured uptime
\* and no historic downtime raises the adjustment from 0.85.
C4_Witness ==
    /\ AppendedSuccess
    /\ entry.HistoricDowntime = <<>>
    /\ Len(entry.ScanHistory) = 3
    /\ res.uptime # <<>>
    /\ prev.res.weight = FLit(85, 100)
    /\ FLess(prev.res.weight, res.weight)

\* Scan i of h is accepted by the loop: no scan before it is later.
Accepted(h, i) ==
    \A j \in 1..(i - 1) : Cmp(h[j].Timestamp, h[i].Timestamp) <= 0

\* The accepted scan before scan i (i > 1): the reference of its interval.
Reference(h, i) ==
    CHOOSE j \in 1..(i - 1) :
        /\ Accepted(h, j)
        /\ \A l \in (j + 1)..(i - 1) : ~Accepted(h, l)

\* The sum of the intervals that end at an accepted scan among 2..i of h
\* and whose reference scan has success bit ok.
RECURSIVE Intervals(_, _, _)
Intervals(h, i, ok) ==
    IF i <= 1 THEN <<>>
    ELSE IF Accepted(h, i) /\ h[Reference(h, i)].Success = ok
    THEN Add(Intervals(h, i - 1, ok),
             Sub(h[i].Timestamp, h[Reference(h, i)].Timestamp))
    ELSE Intervals(h, i - 1, ok)

\* C10: for three or more scans the measured uptime is the historic uptime
\* plus the intervals that follow an accepted successful scan, the measured
\* downtime the historic downtime plus those that follow an accepted failed
\* scan; a scan earlier than the last accepted one adds nothing and is no
\* reference.
C10_IntervalsByEarlierScan ==
    (res # None /\ res.measured) =>
        LET h == entry.ScanHistory
        IN  /\ Len(h) >= 3
            /\ res.uptime = Add(entry.HistoricUptime, Intervals(h, Len(h), TRUE))
            /\ res.downtime = Add(entry.HistoricDowntime, Intervals(h, Len(h), FALSE))

\* C10's case: a scan was skipped, a later one was accepted, and both an
\* interval of uptime and one of downtime were measured.
C10_Witness ==
    /\ res # None
    /\ res.measured
    /\ LET h == entry.ScanHistory
       IN  /\ \E i \in 2..Len(h) : \E l \in (i + 1)..Len(h) :
                  ~Accepted(h, i) /\ Accepted(h, l)
           /\ Intervals(h, Len(h), TRUE) # <<>>
           /\ Intervals(h, Len(h), FALSE) # <<>>

----------------------------------------------------------------------------
(* A host scanned once an hour: 50 scans succeed, then 3 fail              *)
(* (SpecScenario).                                                         *)

\* The hours at which the next hourly scan after history h can happen.
NextHours(h) ==
    IF h = <<>> THEN {0, 1000}
    ELSE {BToNat(Div(h[Len(h)].Timestamp, Hour)) + 1}

\* The scan of this hour succeeds; the host has not failed a scan yet.
HourlySuccess ==
    /\ res # None
    /\ Len(entry.ScanHistory) < 50
    /\ prev' = [field |-> "ScanHistory", entry |-> entry, res |-> res]
    /\ \E k \in NextHours(entry.ScanHistory) :
          entry' = [entry EXCEPT !.ScanHistory = Append(@, Scan(k, TRUE))]
    /\ res' = None
    /\ UNCHANGED <<release, blockHeight, allowance, expected, activeHosts, renterVars, serverVars, envVars, poolVars>>

\* The scan of this hour fails, after 50 successful ones.
HourlyFailure ==
    /\ res # None
    /\ Len(entry.ScanHistory) >= 50
    /\ Len(entry.ScanHistory) < 50 + 3
    /\ prev' = [field |-> "ScanHistory", entry |-> entry, res |-> res]
    /\ \E k \in NextHours(entry.ScanHistory) :
          entry' = [entry EXCEPT !.ScanHistory = Append(@, Scan(k, FALSE))]
    /\ res' = None
    /\ UNCHANGED <<release, blockHeight, allowance, expected, activeHosts, renterVars, serverVars, envVars, poolVars>>

InitScenario ==
    /\ release = "standard"
    /\ blockHeight = 0
    /\ allowance = DefaultAllowance
    /\ entry = DefaultEntry
    /\ expected = expectedStorage
    /\ res = None
    /\ prev = None
    /\ activeHosts = <<>>
    /\ RenterUnset
    /\ ServerUnset
    /\ EnvUnset
    /\ PoolUnset

NextScenario ==
    \/ UptimeAdjustments
    \/ HourlySuccess
    \/ HourlyFailure

SpecScenario == InitScenario /\ [][NextScenario]_vars

\* float64(uptime) / float64(uptime + downtime) of the last call.
MeasuredRatio == FDiv(FromBig(res.uptime), FromBig(Add(res.uptime, res.downtime)))

\* The history of the last call: n scans, the first 50 of them successful
\* and the others failed.
Scored(n) ==
    /\ res # None
    /\ Len(entry.ScanHistory) = n
    /\ \A i \in 1..n : entry.ScanHistory[i].Success = (i <= 50)

\* C5 as stated: after 50 hourly successful scans the uptime ratio is at
\* least 0.98 and the adjustment 1; after 3 further failed scans the
\* adjustment is below 0.9.
C5_ThreeFailuresBelowNineTenths ==
    /\ Scored(50) => /\ FLeq(FLit(98, 100), MeasuredRatio)
                     /\ res.weight = FOne
    /\ Scored(53) => FLess(res.weight, FLit(9, 10))

\* C5, amended: after 50 hourly successful scans the uptime ratio is at
\* least 0.98 and the adjustment 1; after 3 further failed scans 50 hours
\* of uptime and 2 of downtime are measured and the adjustment is below 1
\* but not below 0.9 (it is about 0.93).
C5_ThreeFailuresBelowOne ==
    /\ Scored(50) => /\ FLeq(FLit(98, 100), MeasuredRatio)
                     /\ res.weight = FOne
    /\ Scored(53) => /\ res.uptime = AtHour(50)
                     /\ res.downtime = AtHour(2)
                     /\ FLess(res.weight, FLit(94, 100))
                     /\ FLess(FLit(93, 100), res.weight)

\* C5's case: the adjustment after the third failed scan.
C5_Witness ==
    /\ Scored(53)
    /\ prev.res.measured
    /\ FLess(res.weight, prev.res.weight)
    /\ FLess(res.weight, FOne)

----------------------------------------------------------------------------
(* storageRemainingAdjustments called on its own (SpecStorage).            *)

\* Remaining storage at, just below and just above every threshold of the
\* build, and far above all of them.
StorageInputs(required) ==
    {Add(Mul(BFromNat(t), required), <<d>>) : t \in {1, 2, 3, 5, 10, 15, 20,
                                                     40, 80, 100, 150, 200, 250},
                                              d \in {0, 1}}
    \cup {Sub(Mul(BFromNat(t), required), <<1>>) : t \in {1, 2, 3, 5, 10, 15, 20,
                                                          40, 80, 100, 150, 200}}
    \cup {<<>>}

\* storageRemainingAdjustments(entry).
StorageRemainingAdjustments ==
    /\ res = None
    /\ res' = [weight |-> storageRemainingAdjustments(entry)]
    /\ UNCHANGED <<release, blockHeight, allowance, entry, expected, prev, activeHosts,
                   renterVars, serverVars, envVars, poolVars>>

InitStorage ==
    /\ release \in {"standard", "dev", "testing"}
    /\ blockHeight = 0
    /\ allowance = DefaultAllowance
    /\ \E r \in StorageInputs(requiredStorage) :
          entry = [DefaultEntry EXCEPT !.RemainingStorage = r]
    /\ expected = expectedStorage
    /\ res = None
    /\ prev = None
    /\ activeHosts = <<>>
    /\ RenterUnset
    /\ ServerUnset
    /\ EnvUnset
    /\ PoolUnset

NextStorage == StorageRemainingAdjustments

SpecStorage == InitStorage /\ [][NextStorage]_vars

\* The float64 2^-k.
TwoToMinus(k) == [m |-> 2^(MantBits - 1), e |-> -k - (MantBits - 1)]

\* The thresholds, in units of requiredStorage, that r is below.
Below(r) ==
    {t \in {200, 150, 100, 80, 40, 20, 15, 10, 5, 3, 2, 1} :
        Cmp(r, Mul(BFromNat(t), requiredStorage)) < 0}

\* C8: the storage adjustment is exactly 2^-k for the k thresholds the
\* remaining storage is below: 1/4 one byte below 150 times the required
\* storage, 1/2 one byte above it, 1 from 200 times the required storage
\* on, and never less than 1/4096.
C8_StorageStepFunction ==
    res # None =>
        LET r == entry.RemainingStorage
            at150 == Mul(BFromNat(150), requiredStorage)
        IN  /\ res.weight = TwoToMinus(Cardinality(Below(r)))
            /\ r = Sub(at150, <<1>>) => res.weight = FLit(1, 4)
            /\ r = Add(at150, <<1>>) => res.weight = FLit(1, 2)
            /\ Cmp(r, Mul(BFromNat(200), requiredStorage)) >= 0 => res.weight = FOne
            /\ Cmp(r, requiredStorage) < 0 => res.weight = FLit(1, 4096)
            /\ FLeq(FLit(1, 4096), res.weight)

\* C8's case: one byte below 150 times the required storage.
C8_Witness ==
    /\ res # None
    /\ entry.RemainingStorage = Sub(Mul(BFromNat(150), requiredStorage), <<1>>)
    /\ res.weight = FLit(1, 4)

----------------------------------------------------------------------------
(* lifetimeAdjustments called on its own (SpecLifetime).                   *)

\* Ages at and next to every age lifetimeAdjustments tests.
LifetimeAges ==
    {0, 1, 143, 144, 287, 288, 575, 576, 999, 1000, 1999, 2000, 3999, 4000,
     5999, 6000, 11999, 12000, 20000}

\* hdb.lifetimeAdjustments(entry).
LifetimeAdjustments ==
    /\ res = None
    /\ res' = [weight |-> lifetimeAdjustments(entry)]
    /\ UNCHANGED <<release, blockHeight, allowance, entry, expected, prev, activeHosts,
                   renterVars, serverVars, envVars, poolVars>>

InitLifetime ==
    /\ release = "standard"
    /\ \E f \in {0, 1000, 13000} :
          /\ entry = [DefaultEntry EXCEPT !.FirstSeen = f]
          /\ blockHeight \in {f + a : a \in LifetimeAges} \cup {0, f \div 2}
    /\ allowance = DefaultAllowance
    /\ expected = expectedStorage
    /\ res = None
    /\ prev = None
    /\ activeHosts = <<>>
    /\ RenterUnset
    /\ ServerUnset
    /\ EnvUnset
    /\ PoolUnset

NextLifetime == LifetimeAdjustments

SpecLifetime == InitLifetime /\ [][NextLifetime]_vars

\* The uint64 blockHeight - FirstSeen as a natural: below FirstSeen the
\* difference of two uint64 wraps round.
Age ==
    IF blockHeight >= entry.FirstSeen
    THEN BFromNat(blockHeight - entry.FirstSeen)
    ELSE Sub(BShl(<<1>>, 64), BFromNat(entry.FirstSeen - blockHeight))

\* How many of the ages in S the age of the entry is below.
AgesBelow(S) == Cardinality({t \in S : Cmp(Age, BFromNat(t)) < 0})

\* x and y differ by less than 2^-(MantBits - 4) of y: they are equal up to
\* the rounding of a few operations.
Near(x, y) ==
    LET d == FSub(x, y)
    IN  FLeq(IF d.m < 0 THEN FNeg(d) ELSE d,
             FMul(y, [m |-> 2^(MantBits - 1), e |-> 5 - 2 * MantBits]))

\* C9: the lifetime adjustment is 2/3 below age 12000, halved below each
\* of 6000, 4000 and 2000 and divided by 3 below each of 1000, 576, 288 and
\* 144: 1 from age 12000 on and 1/972 below age 144.
C9_LifetimeStepFunction ==
    res # None =>
        LET twoThirds == AgesBelow({12000})
            halves    == AgesBelow({6000, 4000, 2000})
            thirds    == AgesBelow({1000, 576, 288, 144})
        IN  /\ Near(res.weight,
                    FDiv(FromNat(2^twoThirds),
                         FromNat(3^twoThirds * 2^halves * 3^thirds)))
            /\ Cmp(Age, BFromNat(12000)) >= 0 => res.weight = FOne
            /\ Cmp(Age, BFromNat(144)) < 0 => Near(res.weight, FLit(1, 972))

\* C9's case: a host announced less than 144 blocks ago.
C9_Witness ==
    /\ res # None
    /\ blockHeight >= entry.FirstSeen
    /\ blockHeight - entry.FirstSeen < 144
    /\ Near(res.weight, FLit(1, 972))
    /\ FLess(res.weight, FLit(1, 900))

----------------------------------------------------------------------------
(* priceAdjustments called on its own (SpecPrice).                         *)

\* Storage prices below, at and above minTotalPrice.
PositivePrices ==
    {Div(minTotalPrice, <<2>>), Sub(minTotalPrice, <<1>>), minTotalPrice,
     Mul(<<2>>, minTotalPrice), Dec(1, 12), HugePrice}

PriceEntries ==
    {[DefaultEntry EXCEPT !.StoragePrice = p, !.ContractPrice = c,
                          !.UploadBandwidthPrice = u,
                          !.DownloadBandwidthPrice = d] :
        p \in PositivePrices,
        c \in {<<>>, Mul(Mul(minTotalPrice, BFromNat(6048)), expectedStorage)},
        u \in {<<>>, Dec(1, 13)},
        d \in {<<>>, Dec(1, 13)}}

\* The outcome of a call that panicked.
Panicked == [panic |-> TRUE]

\* hdb.priceAdjustments(entry, allowance, expectedStorage,
\* expectedUploadFrequency, expectedDownloadFrequency).
PriceAdjustments ==
    /\ res = None
    /\ res' = IF pricePanics(allowance, expectedStorage, expectedUploadFrequency,
                             expectedDownloadFrequency)
              THEN Panicked
              ELSE priceLocals(entry, allowance, expectedStorage,
                               expectedUploadFrequency, expectedDownloadFrequency)
    /\ UNCHANGED <<release, blockHeight, allowance, entry, expected, prev, activeHosts,
                   renterVars, serverVars, envVars, poolVars>>

InitPrice ==
    /\ release = "standard"
    /\ blockHeight = 0
    /\ allowance \in Allowances
    /\ entry \in PriceEntries
    /\ expected = expectedStorage
    /\ res = None
    /\ prev = None
    /\ activeHosts = <<>>
    /\ RenterUnset
    /\ ServerUnset
    /\ EnvUnset
    /\ PoolUnset

NextPrice == PriceAdjustments

SpecPrice == InitPrice /\ [][NextPrice]_vars

\* The total price of the entry before the minimum is applied.
TotalPrice ==
    Add(Add(Add(entry.StoragePrice,
                Div(entry.ContractPrice,
                    Mul(BFromNat(allowance.Period), expectedStorage))),
            Div(entry.UploadBandwidthPrice, expectedUploadFrequency)),
        Div(Div(entry.DownloadBandwidthPrice, expectedDownloadFrequency), <<3>>))

\* C11: the price adjustment is never above 1, it is exactly 1 when the
\* total price is at or below minTotalPrice, and exactly 1/32 when the
\* total price is twice minTotalPrice.
C11_PriceClampedAtMinimum ==
    (res # None /\ res # Panicked) =>
        /\ FLeq(res.weight, FOne)
        /\ res.totalPrice = (IF Cmp(TotalPrice, minTotalPrice) < 0
                             THEN minTotalPrice ELSE TotalPrice)
        /\ Cmp(TotalPrice, minTotalPrice) <= 0 => res.weight = FOne
        /\ TotalPrice = Mul(<<2>>, minTotalPrice) =>
              /\ res.weight = FLit(1, 32)
              /\ res.actualU64 = Mul(<<2>>, res.baseU64)

\* C11's case: a host priced at twice minTotalPrice.
C11_Witness ==
    /\ res # None
    /\ res # Panicked
    /\ TotalPrice = Mul(<<2>>, minTotalPrice)
    /\ entry.StoragePrice = minTotalPrice
    /\ res.weight = FLit(1, 32)

----------------------------------------------------------------------------
(* interactionAdjustments called on its own (SpecInteraction).             *)

\* Interactions recorded on top of a starting count.
MaxInteractions == 3

\* Starting counts of a host's interactions.
InteractionCounts == {0, 100, 10000}

\* The count may grow by one within the bound.
mayRecord(n) == \E b \in InteractionCounts : n - b \in 0..(MaxInteractions - 1)

\* hdb.interactionAdjustments(entry).
InteractionAdjustments ==
    /\ res = None
    /\ res' = [weight |-> interactionAdjustments(entry)]
    /\ UNCHANGED <<release, blockHeight, allowance, entry, expected, prev, activeHosts,
                   renterVars, serverVars, envVars, poolVars>>

\* A contract-level success is recorded for the host.
RecordSuccess ==
    /\ res # None
    /\ mayRecord(entry.HistoricSuccessfulInteractions)
    /\ prev' = [field |-> "HistoricSuccessfulInteractions", entry |-> entry,
                res |-> res]
    /\ entry' = [entry EXCEPT !.HistoricSuccessfulInteractions = @ + 1]
    /\ res' = None
    /\ UNCHANGED <<release, blockHeight, allowance, expected, activeHosts, renterVars, serverVars, envVars, poolVars>>

\* A contract-level failure is recorded for the host.
RecordFailure ==
    /\ res # None
    /\ mayRecord(entry.HistoricFailedInteractions)
    /\ prev' = [field |-> "HistoricFailedInteractions", entry |-> entry,
                res |-> res]
    /\ entry' = [entry EXCEPT !.HistoricFailedInteractions = @ + 1]
    /\ res' = None
    /\ UNCHANGED <<release, blockHeight, allowance, expected, activeHosts, renterVars, serverVars, envVars, poolVars>>

InitInteraction ==
    /\ release = "standard"
    /\ blockHeight = 0
    /\ allowance = DefaultAllowance
    /\ entry \in {[DefaultEntry EXCEPT !.HistoricSuccessfulInteractions = s,
                                       !.HistoricFailedInteractions = f] :
                     s \in InteractionCounts, f \in InteractionCounts}
    /\ expected = expectedStorage
    /\ res = None
    /\ prev = None
    /\ activeHosts = <<>>
    /\ RenterUnset
    /\ ServerUnset
    /\ EnvUnset
    /\ PoolUnset

NextInteraction == InteractionAdjustments \/ RecordSuccess \/ RecordFailure

SpecInteraction == InitInteraction /\ [][NextInteraction]_vars

\* (n/d)^15 from the exact integer powers.
Fifteenth(n, d) ==
    FDiv(FromBig(BPow(BFromNat(n), 15)), FromBig(BPow(BFromNat(d), 15)))

\* x and y differ by less than 2^-(MantBits - 6) of y: they are equal up to
\* the rounding of a quotient raised to the fifteenth power.
Close(x, y) ==
    LET d == FSub(x, y)
    IN  FLeq(IF d.m < 0 THEN FNeg(d) ELSE d,
             FMul(y, [m |-> 2^(MantBits - 1), e |-> 7 - 2 * MantBits]))

\* C12: the interaction adjustment is ((s + 30) / (s + 30 + f + 1))^15,
\* strictly between 0 and 1 and (30/31)^15 without interactions; one more
\* success never lowers it and one more failure never raises it.
C12_InteractionAdjustment ==
    res # None =>
        LET s == entry.HistoricSuccessfulInteractions
            f == entry.HistoricFailedInteractions
        IN  /\ Close(res.weight, Fifteenth(s + 30, s + 30 + f + 1))
            /\ FLess(FZero, res.weight)
            /\ FLess(res.weight, FOne)
            /\ (s = 0 /\ f = 0) => Close(res.weight, Fifteenth(30, 31))
            /\ (prev # None /\ prev.field = "HistoricSuccessfulInteractions")
                  => FLeq(prev.res.weight, res.weight)
            /\ (prev # None /\ prev.field = "HistoricFailedInteractions")
                  => FLeq(res.weight, prev.res.weight)

\* C12's case: a success recorded after a failure raised the adjustment of a
\* host that had no interactions.
C12_Witness ==
    /\ res # None
    /\ prev # None
    /\ prev.field = "HistoricSuccessfulInteractions"
    /\ prev.entry.HistoricSuccessfulInteractions = 0
    /\ prev.entry.HistoricFailedInteractions = 1
    /\ FLess(prev.res.weight, res.weight)

----------------------------------------------------------------------------
(* The weight of hosts of several versions (SpecVersion).                  *)

\* Advertised versions: before the hard fork, outdated, and current.
Versions == {<<1, 3, 0>>, <<1, 3, 1>>, <<1, 3, 2>>, <<1, 4, 0>>}

VersionEntries ==
    {[Version |-> v] @@ [DefaultEntry EXCEPT !.StoragePrice = p,
                                             !.RemainingStorage = r] :
        v \in Versions, p \in StoragePrices,
        r \in {<<>>, Mul(BFromNat(250), StandardStorage)}}

InitVersion ==
    /\ release = "standard"
    /\ blockHeight = 0
    /\ allowance \in Allowances
    /\ entry \in VersionEntries
    /\ expected = expectedStorage
    /\ res = None
    /\ prev = None
    /\ activeHosts = <<>>
    /\ RenterUnset
    /\ ServerUnset
    /\ EnvUnset
    /\ PoolUnset

NextVersion == HostWeight

SpecVersion == InitVersion /\ [][NextVersion]_vars

\* C13: a host whose version is below the hard-fork threshold 1.3.1 gets a
\* version adjustment below 1 (the smallest positive float) and the minimum
\* weight 1, and a host of another outdated version (below 1.4.0) gets a
\* version adjustment below 1.
C13_OutdatedVersionPenalised ==
    Returned =>
        /\ VersionCmp(entry.Version, <<1, 4, 0>>) < 0
              => FLess(res.factors.versionPenalty, FOne)
        /\ VersionCmp(entry.Version, <<1, 3, 1>>) < 0
              => /\ res.factors.versionPenalty = SmallestNonzeroFloat64
                 /\ res.weight = NewCurrency64(1)

\* C13, as the source has it: the version adjustment is 1 whatever version
\* the host advertises, and the weight is the one of the same host with any
\* other version.
C13_VersionIgnored ==
    Returned =>
        /\ res.factors.versionPenalty = FOne
        /\ \A v \in Versions :
              weightFunc([entry EXCEPT !.Version = v], allowance).weight
                  = res.weight

\* C13's case: a host from before the hard fork with a weight above 1.
C13_Witness ==
    /\ Returned
    /\ VersionCmp(entry.Version, <<1, 3, 1>>) < 0
    /\ res.factors.versionPenalty = FOne
    /\ Cmp(res.weight, NewCurrency64(1)) > 0

----------------------------------------------------------------------------
(* The score breakdowns of the host database (SpecBreakdown).              *)

\* Entries that differ in what EstimateHostScore leaves out (first seen,
\* scans, historic uptime and downtime, interactions) and in what it reads.
BreakdownEntries ==
    {[DefaultEntry EXCEPT !.StoragePrice = p, !.FirstSeen = fs,
                          !.ScanHistory = h[1], !.HistoricDowntime = h[2],
                          !.HistoricFailedInteractions = f] :
        p \in {minTotalPrice, HugePrice},
        fs \in {0, 19000},
        h \in {<<<<>>, <<>>>>,
               <<<<Scan(0, TRUE), Scan(1, FALSE), Scan(2, FALSE)>>, Hour>>},
        f \in {0, 5}}

\* What hdb.ActiveHosts() may return.
HostLists ==
    {<<>>,
     <<DefaultEntry>>,
     <<DefaultEntry, [DefaultEntry EXCEPT !.StoragePrice = Dec(1, 12)]>>}

\* hdb.ScoreBreakdown(entry).
CallScoreBreakdown ==
    /\ res = None
    /\ res' = [call |-> "ScoreBreakdown", allowance |-> allowance,
               out |-> ScoreBreakdown(entry, activeHosts, allowance)]
    /\ UNCHANGED <<release, blockHeight, allowance, entry, expected, prev,
                   activeHosts, renterVars, serverVars, envVars, poolVars>>

\* hdb.EstimateHostScore(entry, al).
CallEstimateHostScore(al) ==
    /\ res = None
    /\ res' = [call |-> "EstimateHostScore", allowance |-> al,
               out |-> EstimateHostScore(entry, al, activeHosts, allowance)]
    /\ UNCHANGED <<release, blockHeight, allowance, entry, expected, prev,
                   activeHosts, renterVars, serverVars, envVars, poolVars>>

InitBreakdown ==
    /\ release = "standard"
    /\ blockHeight = 20000
    /\ allowance \in Allowances
    /\ entry \in BreakdownEntries
    /\ expected = expectedStorage
    /\ res = None
    /\ prev = None
    /\ activeHosts \in HostLists
    /\ RenterUnset
    /\ ServerUnset
    /\ EnvUnset
    /\ PoolUnset

NextBreakdown ==
    \/ CallScoreBreakdown
    \/ \E al \in Allowances : CallEstimateHostScore(al)

SpecBreakdown == InitBreakdown /\ [][NextBreakdown]_vars

\* A breakdown was returned by the named function.
Broken(call) == res # None /\ res.call = call /\ ~res.out.panic

\* The score that the adjustments a breakdown reports give: the base weight
\* times their product, truncated, and 1 when that is zero.
ReportedScore(b) ==
    LET full  == FMul(FMul(FMul(FMul(FMul(FMul(FMul(
                     b.CollateralAdjustment, b.InteractionAdjustment),
                     b.AgeAdjustment), b.PriceAdjustment),
                     b.StorageRemainingAdjustment), b.UptimeAdjustment),
                     b.VersionAdjustment), b.BurnAdjustment)
        score == MulFloat(baseWeight, full)
    IN  IF IsZero(score) THEN NewCurrency64(1) ELSE score

\* The adjustments a breakdown reports.
Reported(b) ==
    {b.AgeAdjustment, b.BurnAdjustment, b.CollateralAdjustment,
     b.InteractionAdjustment, b.PriceAdjustment, b.StorageRemainingAdjustment,
     b.UptimeAdjustment, b.VersionAdjustment}

\* C14: the Score of every breakdown that ScoreBreakdown or
\* EstimateHostScore returns is the base weight times the product of the
\* adjustments the breakdown reports, truncated and at least 1, and no
\* reported adjustment is 0 while the Score is above 1.
C14_ScoreIsProductOfReported ==
    (Broken("ScoreBreakdown") \/ Broken("EstimateHostScore")) =>
        /\ res.out.Score = ReportedScore(res.out)
        /\ Cmp(res.out.Score, NewCurrency64(1)) > 0
              => FZero \notin Reported(res.out)

\* e2 is e but for what the claim lets differ: first seen, scan history,
\* historic uptime and downtime, and interaction counts.
SameSettings(e, e2) ==
    e = [e2 EXCEPT !.FirstSeen = e.FirstSeen,
                   !.ScanHistory = e.ScanHistory,
                   !.HistoricUptime = e.HistoricUptime,
                   !.HistoricDowntime = e.HistoricDowntime,
                   !.HistoricSuccessfulInteractions = e.HistoricSuccessfulInteractions,
                   !.HistoricFailedInteractions = e.HistoricFailedInteractions]

\* C15: EstimateHostScore reports age and uptime adjustments of 1, and gives
\* the same Score to every entry that differs from the one scored only in
\* first seen, scan history, historic uptime and downtime or interaction
\* counts, under the same allowance and host database.
C15_EstimateIgnoresHistory ==
    Broken("EstimateHostScore") =>
        /\ res.out.AgeAdjustment = FOne
        /\ res.out.UptimeAdjustment = FOne
        /\ \A e2 \in BreakdownEntries :
              (e2 # entry /\ SameSettings(entry, e2)) =>
                  EstimateHostScore(e2, res.allowance, activeHosts,
                                    allowance).Score = res.out.Score

\* C15's case: a young host with failed scans, downtime and failed
\* interactions whose estimate is above 1 and is the one of the same host
\* without that history, while its weight is lower.
C15_Witness ==
    /\ Broken("EstimateHostScore")
    /\ res.allowance = allowance
    /\ entry.FirstSeen = 19000
    /\ entry.ScanHistory # <<>>
    /\ entry.HistoricFailedInteractions = 5
    /\ Cmp(res.out.Score, NewCurrency64(1)) > 0
    /\ LET clean == [entry EXCEPT !.FirstSeen = 0, !.ScanHistory = <<>>,
                                  !.HistoricDowntime = <<>>,
                                  !.HistoricFailedInteractions = 0]
       IN  /\ clean \in BreakdownEntries
           /\ res.out.Score = EstimateHostScore(clean, res.allowance,
                                                activeHosts, allowance).Score
           /\ Cmp(weightFunc(entry, allowance).weight,
                  weightFunc(clean, allowance).weight) < 0

----------------------------------------------------------------------------
(* calculateConversionRate called on its own (SpecConversion).             *)

\* Scores from zero to far above the weight of a host.
Scores ==
    {<<>>, NewCurrency64(1), NewCurrency64(3)}
        \cup {BShl(<<1>>, k) : k \in {300, 400, 410, 415, 420, 425, 430, 440}}
        \cup {BShl(<<3>>, k) : k \in {415, 420}}

\* The scores of the active hosts themselves, when their weight function
\* does not panic.
ActiveScores ==
    IF conversionPanics(activeHosts, allowance) THEN {}
    ELSE {weightFunc(activeHosts[i], allowance).weight :
             i \in 1..Len(activeHosts)}

\* hdb.calculateConversionRate(score).
CalculateConversionRate(score) ==
    /\ res = None
    /\ res' = IF conversionPanics(activeHosts, allowance)
              THEN [panic |-> TRUE]
              ELSE [panic |-> FALSE, score |-> score,
                    conversionRate |->
                        calculateConversionRate(score, activeHosts, allowance)]
    /\ UNCHANGED <<release, blockHeight, allowance, entry, expected, prev,
                   activeHosts, renterVars, serverVars, envVars, poolVars>>

InitConversion ==
    /\ release = "standard"
    /\ blockHeight \in {0, 20000}
    /\ allowance \in Allowances
    /\ entry = DefaultEntry
    /\ expected = expectedStorage
    /\ res = None
    /\ prev = None
    /\ activeHosts \in HostLists
    /\ RenterUnset
    /\ ServerUnset
    /\ EnvUnset
    /\ PoolUnset

NextConversion ==
    \E score \in Scores \cup ActiveScores : CalculateConversionRate(score)

SpecConversion == InitConversion /\ [][NextConversion]_vars

\* The sum of the weights of the active hosts, 1 when it is zero.
RECURSIVE ActiveTotal(_)
ActiveTotal(n) ==
    IF n = 0 THEN <<>>
    ELSE Add(ActiveTotal(n - 1), weightFunc(activeHosts[n], allowance).weight)

Total ==
    IF IsZero(ActiveTotal(Len(activeHosts))) THEN NewCurrency64(1)
    ELSE ActiveTotal(Len(activeHosts))

\* The natural m times 2^e times the currency c is at most 2^e times d
\* (e may be negative: both sides are scaled by 2^-e).
ScaledLeq(m, e, c, d, strictlyMore) ==
    LET lhs == IF e >= 0 THEN BShl(BMulSmall(c, m), e) ELSE BMulSmall(c, m)
        rhs == IF e >= 0 THEN d ELSE BShl(d, -e)
    IN  IF strictlyMore THEN Cmp(lhs, rhs) >= 0 ELSE Cmp(lhs, rhs) <= 0

\* The float r is a / b up to one unit of its last place.
IsQuotient(r, a, b) ==
    IF a = <<>> THEN r = FZero
    ELSE /\ r.m > 0
         /\ ScaledLeq(r.m - 1, r.e, b, a, FALSE)
         /\ ScaledLeq(r.m + 1, r.e, b, a, TRUE)

\* C16: the conversion rate is min(100, 50 * score / T), T the sum of the
\* weights of the active hosts and 1 when that sum is zero, and lies in
\* [0, 100].
C16_ConversionRate ==
    (res # None /\ ~res.panic) =>
        LET a == Mul64(res.score, BFromNat(50))
        IN  /\ FLeq(FZero, res.conversionRate)
            /\ FLeq(res.conversionRate, FromNat(100))
            /\ IF Cmp(a, Mul64(Total, BFromNat(100))) >= 0
               THEN res.conversionRate = FromNat(100)
               ELSE IsQuotient(res.conversionRate, a, Total)

\* C16's case: the score of one of two active hosts is more than twice the
\* sum of their weights, and the rate is cut to 100.
C16_Witness ==
    /\ res # None
    /\ ~res.panic
    /\ Len(activeHosts) = 2
    /\ Cmp(res.score, Mul64(Total, <<2>>)) > 0
    /\ res.conversionRate = FromNat(100)

----------------------------------------------------------------------------
(* The renter's contracts over the API (SpecContracts).                    *)

\* scanBool: an empty form value is false, and fmt.Sscan reads a bool.
scanBool(param) ==
    IF param = "" THEN [err |-> FALSE, b |-> FALSE]
    ELSE IF param \in {"true", "t", "1"} THEN [err |-> FALSE, b |-> TRUE]
    ELSE IF param \in {"false", "f", "0"} THEN [err |-> FALSE, b |-> FALSE]
    ELSE [err |-> TRUE, b |-> FALSE]

\* The RenterContract built from a contract c of the renter (the fields the
\* lists are told apart by; the others are copied from c as well).
RenterContract(c) ==
    [ID |-> c.ID, EndHeight |-> c.EndHeight, GoodForRenew |-> c.GoodForRenew]

\* A contract of renter.Contracts() goes to activeContracts.
isActive(c) == c.GoodForRenew

\* A contract of renter.Contracts() goes to inactiveContracts whether or
\* not it went to activeContracts.
isInactiveAsWell(c, inactive) == inactive

\* A contract of renter.Contracts() goes to inactiveContracts.
isInactive(c, inactive) == ~isActive(c) /\ inactive /\ ~c.GoodForRenew

\* An archived contract goes to expiredContracts from its end height on.
isExpiredInclusive(c, expired, h) == expired /\ c.EndHeight <= h

\* An archived contract goes to expiredContracts.
isExpired(c, expired, h) == expired /\ c.EndHeight < h

\* An archived contract goes to inactiveContracts.
isInactiveOld(c, inactive, expired, h) ==
    ~isExpired(c, expired, h) /\ inactive /\ c.EndHeight >= h

\* The RenterContract of each contract of cs, in order.
RECURSIVE RenterContractsOf(_, _)
RenterContractsOf(cs, i) ==
    IF i > Len(cs) THEN <<>>
    ELSE <<RenterContract(cs[i])>> \o RenterContractsOf(cs, i + 1)

\* renterContractsHandler from the height on, the flags parsed.
contractsResponse(inactive, expired, h, cs, old) ==
    [error |-> "",
     Contracts |-> RenterContractsOf(cs, 1),
     ActiveContracts |->
         RenterContractsOf(SelectSeq(cs, isActive), 1),
     InactiveContracts |->
         RenterContractsOf(
             SelectSeq(cs, LAMBDA c : isInactive(c, inactive))
                 \o (IF expired \/ inactive
                     THEN SelectSeq(old, LAMBDA c :
                                         isInactiveOld(c, inactive, expired, h))
                     ELSE <<>>), 1),
     ExpiredContracts |->
         RenterContractsOf(
             IF expired \/ inactive
             THEN SelectSeq(old, LAMBDA c : isExpired(c, expired, h))
             ELSE <<>>, 1)]

\* renterContractsHandler once inactive is parsed.
contractsExpired(inactive, e, h, cs, old) ==
    IF e.err THEN [error |-> "unable to parse expired"]
    ELSE contractsResponse(inactive, e.b, h, cs, old)

\* renterContractsHandler: req gives the form values, h is api.cs.Height(),
\* cs is api.renter.Contracts() and old is api.renter.OldContracts().
renterContractsHandler(req, h, cs, old) ==
    IF scanBool(req.inactive).err THEN [error |-> "unable to parse inactive"]
    ELSE contractsExpired(scanBool(req.inactive).b, scanBool(req.expired),
                          h, cs, old)

\* The height of the consensus set in SpecContracts.
Height == 10

\* The contracts the renter may hold: none, one or two (ids 1 and 2).
ContractLists ==
    LET one(id) == {[ID |-> id, EndHeight |-> eh, GoodForRenew |-> g] :
                       eh \in {Height - 1, Height + 1}, g \in BOOLEAN}
    IN  {<<>>} \cup {<<c>> : c \in one(1)}
               \cup {<<c, d>> : c \in one(1), d \in one(2)}

\* The archived contracts: none, one or two (ids 3 and 4), ending before,
\* at or after the height.
OldContractLists ==
    LET one(id) == {[ID |-> id, EndHeight |-> eh, GoodForRenew |-> FALSE] :
                       eh \in {Height - 1, Height, Height + 1}}
    IN  {<<>>} \cup {<<c>> : c \in one(3)}
               \cup {<<c, d>> : c \in one(3), d \in one(4)}

\* The form values of a flag.
FlagValues == {"", "true", "false", "maybe"}

\* GET /renter/contracts with the form values req.
RenterContractsHandler(req) ==
    /\ res = None
    /\ res' = [request |-> req,
               out |-> renterContractsHandler(req, height, contracts,
                                              oldContracts)]
    /\ UNCHANGED <<release, blockHeight, allowance, entry, expected, prev,
                   activeHosts, renterVars, serverVars, envVars, poolVars>>

InitContracts ==
    /\ release = "standard"
    /\ blockHeight = Height
    /\ allowance = DefaultAllowance
    /\ entry = DefaultEntry
    /\ expected = expectedStorage
    /\ res = None
    /\ prev = None
    /\ activeHosts = <<>>
    /\ height = Height
    /\ contracts \in ContractLists
    /\ oldContracts \in OldContractLists
    /\ settings = ZeroSettings
    /\ ServerUnset
    /\ EnvUnset
    /\ PoolUnset

NextContracts ==
    \E i \in FlagValues, e \in FlagValues :
        RenterContractsHandler([inactive |-> i, expired |-> e])

SpecContracts == InitContracts /\ [][NextContracts]_vars

\* The ids of the contracts of a list of the response.
Ids(list) == {list[i].ID : i \in 1..Len(list)}

\* The handler answered with the lists, the flags being as given.
Listed(inactive, expired) ==
    /\ res # None
    /\ res.out.error = ""
    /\ scanBool(res.request.inactive).b = inactive
    /\ scanBool(res.request.expired).b = expired

\* C17: with expired and inactive set, every archived contract whose end
\* height is at or below the current height is listed as expired and not
\* as inactive.
C17_ExpiredFromEndHeight ==
    Listed(TRUE, TRUE) =>
        \A i \in 1..Len(oldContracts) :
            oldContracts[i].EndHeight <= height =>
                /\ oldContracts[i].ID \in Ids(res.out.ExpiredContracts)
                /\ oldContracts[i].ID \notin Ids(res.out.InactiveContracts)

\* C17, as the source has it: with expired and inactive set, an archived
\* contract is listed as expired and not as inactive when its end height is
\* below the current height, and as inactive and not as expired when its
\* end height is the current height or above.
C17_ExpiredBelowHeight ==
    Listed(TRUE, TRUE) =>
        \A i \in 1..Len(oldContracts) :
            /\ oldContracts[i].ID \in Ids(res.out.ExpiredContracts)
                  <=> oldContracts[i].EndHeight < height
            /\ oldContracts[i].ID \in Ids(res.out.InactiveContracts)
                  <=> oldContracts[i].EndHeight >= height

\* C17's case: an archived contract that ends at the current height is
\* listed as inactive, next to one that ended before and is listed as
\* expired.
C17_Witness ==
    /\ Listed(TRUE, TRUE)
    /\ Len(oldContracts) = 2
    /\ oldContracts[1].EndHeight = height
    /\ oldContracts[2].EndHeight = height - 1
    /\ Ids(res.out.InactiveContracts) \cap {3, 4} = {3}
    /\ Ids(res.out.ExpiredContracts) = {4}

\* How many times the contract id is in a list of the response.
Times(id, list) == Cardinality({i \in 1..Len(list) : list[i].ID = id})

\* How many times the contract id is in the three lists together.
TimesListed(id) ==
    Times(id, res.out.ActiveContracts) + Times(id, res.out.InactiveContracts)
        + Times(id, res.out.ExpiredContracts)

\* C18: whatever the flags, a contract of renter.Contracts() is listed as
\* active iff it is good for renew, no contract is in more than one of the
\* three lists and an archived contract is in at most one; with inactive
\* set, every contract of renter.Contracts() is in exactly one of the
\* active and inactive lists.
C18_ListsPartitionContracts ==
    (res # None /\ res.out.error = "") =>
        /\ \A i \in 1..Len(contracts) :
              /\ contracts[i].ID \in Ids(res.out.ActiveContracts)
                    <=> contracts[i].GoodForRenew
              /\ TimesListed(contracts[i].ID) <= 1
              /\ scanBool(res.request.inactive).b
                    => /\ TimesListed(contracts[i].ID) = 1
                       /\ contracts[i].ID \notin Ids(res.out.ExpiredContracts)
        /\ \A i \in 1..Len(oldContracts) :
              TimesListed(oldContracts[i].ID) <= 1

\* C18's case: with inactive set and expired not, the contract that is good
\* for renew is active, the one that is not is inactive, and an archived
\* contract that ended before the current height is in no list.
C18_Witness ==
    /\ Listed(TRUE, FALSE)
    /\ Len(contracts) = 2
    /\ contracts[1].GoodForRenew
    /\ ~contracts[2].GoodForRenew
    /\ Len(oldContracts) = 1
    /\ oldContracts[1].EndHeight < height
    /\ Ids(res.out.ActiveContracts) = {1}
    /\ Ids(res.out.InactiveContracts) = {2}
    /\ Ids(res.out.ExpiredContracts) = {}

----------------------------------------------------------------------------
(* The renter's settings over the API (SpecSettings). A form value is the  *)
(* sequence of its characters; <<>> is the empty string of a parameter     *)
(* that the request does not supply.                                       *)

\* build.Select over the three builds.
requiredHosts ==
    CASE release = "standard" -> 20
      [] release = "dev"      -> 1
      [] release = "testing"  -> 1

requiredRenewWindow ==
    CASE release = "standard" -> 288
      [] release = "dev"      -> 1
      [] release = "testing"  -> 1

\* The fields of modules.DefaultAllowance that renterHandlerPOST reads.
DefaultRenterAllowance ==
    [Hosts |-> DefaultAllowance.Hosts, ExpectedStorage |-> 25000,
     ExpectedUpload |-> 200, ExpectedDownload |-> 100,
     ExpectedRedundancy |-> FromNat(3)]

\* The value of a decimal digit.
DigitValue ==
    ("0" :> 0) @@ ("1" :> 1) @@ ("2" :> 2) @@ ("3" :> 3) @@ ("4" :> 4) @@
    ("5" :> 5) @@ ("6" :> 6) @@ ("7" :> 7) @@ ("8" :> 8) @@ ("9" :> 9)

\* fmt.Sscan skips the leading space of its input.
RECURSIVE SkipSpace(_)
SkipSpace(v) == IF v # <<>> /\ Head(v) = " " THEN SkipSpace(Tail(v)) ELSE v

\* fmt.Sscan reads one operand: the characters up to the next space.
RECURSIVE Token(_)
Token(v) ==
    IF v = <<>> \/ Head(v) = " " THEN <<>>
    ELSE <<Head(v)>> \o Token(Tail(v))

\* The number a sequence of digits writes, most significant digit first.
RECURSIVE DigitsValue(_, _)
DigitsValue(t, acc) ==
    IF t = <<>> THEN acc
    ELSE DigitsValue(Tail(t), 10 * acc + DigitValue[Head(t)])

AllDigits(t) == t # <<>> /\ \A i \in 1..Len(t) : t[i] \in DOMAIN DigitValue

\* fmt.Sscan(v, &u) for an unsigned integer u: digits, no sign.
scanUnsignedOf(t) ==
    IF AllDigits(t) THEN [err |-> FALSE, u |-> DigitsValue(t, 0)]
    ELSE [err |-> TRUE, u |-> 0]

ScanUnsigned(v) == scanUnsignedOf(Token(SkipSpace(v)))

\* fmt.Sscan(v, &i) for a signed integer i: an optional sign, then digits.
scanSignedOf(t) ==
    IF t # <<>> /\ Head(t) = "-"
    THEN [err |-> scanUnsignedOf(Tail(t)).err, i |-> 0 - scanUnsignedOf(Tail(t)).u]
    ELSE IF t # <<>> /\ Head(t) = "+"
    THEN [err |-> scanUnsignedOf(Tail(t)).err, i |-> scanUnsignedOf(Tail(t)).u]
    ELSE [err |-> scanUnsignedOf(t).err, i |-> scanUnsignedOf(t).u]

ScanSigned(v) == scanSignedOf(Token(SkipSpace(v)))

\* fmt.Sscan(v, &f) for a float64 f written as digits or digits.digits.
scanFloatOf(t) ==
    IF \E k \in 1..Len(t) : t[k] = "."
    THEN LET k == CHOOSE k \in 1..Len(t) : t[k] = "."
         IN  IF AllDigits(SubSeq(t, 1, k - 1)) /\ AllDigits(SubSeq(t, k + 1, Len(t)))
             THEN [err |-> FALSE,
                   f |-> FDiv(FromNat(DigitsValue(SubSeq(t, 1, k - 1)
                                                      \o SubSeq(t, k + 1, Len(t)), 0)),
                              FromNat(10^(Len(t) - k)))]
             ELSE [err |-> TRUE, f |-> FZero]
    ELSE [err |-> scanUnsignedOf(t).err, f |-> FromNat(scanUnsignedOf(t).u)]

ScanFloat(v) == scanFloatOf(Token(SkipSpace(v)))

\* fmt.Sscan(v, &b) for a bool b.
scanFlagOf(t) ==
    IF t \in {<<"t", "r", "u", "e">>, <<"t">>, <<"1">>}
    THEN [err |-> FALSE, b |-> TRUE]
    ELSE IF t \in {<<"f", "a", "l", "s", "e">>, <<"f">>, <<"0">>}
    THEN [err |-> FALSE, b |-> FALSE]
    ELSE [err |-> TRUE, b |-> FALSE]

ScanFlag(v) == scanFlagOf(Token(SkipSpace(v)))

\* scanAmount: a currency written in decimal digits.
scanAmount(v) ==
    IF AllDigits(v) THEN [ok |-> TRUE, c |-> BFromNat(DigitsValue(v, 0))]
    ELSE [ok |-> FALSE, c |-> <<>>]

\* The handler goes on with the settings s.
Go(s) == [error |-> "", settings |-> s]

\* The handler writes an error and returns.
Stop(msg, s) == [error |-> msg, settings |-> s]

\* "funds".
fundsStep(req, s) ==
    IF req.funds # <<>>
    THEN IF ~scanAmount(req.funds).ok THEN Stop("unable to parse funds", s)
         ELSE Go([s EXCEPT !.Allowance.Funds = scanAmount(req.funds).c])
    ELSE Go(s)

\* "hosts".
hostsStep(req, s) ==
    IF req.hosts # <<>>
    THEN IF ScanUnsigned(req.hosts).err THEN Stop("unable to parse hosts", s)
         ELSE IF /\ ScanUnsigned(req.hosts).u # 0
                 /\ ScanUnsigned(req.hosts).u < requiredHosts
         THEN Stop("insufficient number of hosts", s)
         ELSE Go([s EXCEPT !.Allowance.Hosts = ScanUnsigned(req.hosts).u])
    ELSE IF s.Allowance.Hosts = 0
    THEN Go([s EXCEPT !.Allowance.Hosts = DefaultRenterAllowance.Hosts])
    ELSE Go(s)

\* "period".
periodStep(req, s) ==
    IF req.period # <<>>
    THEN IF ScanUnsigned(req.period).err THEN Stop("unable to parse period", s)
         ELSE Go([s EXCEPT !.Allowance.Period = ScanUnsigned(req.period).u])
    ELSE IF s.Allowance.Period = 0
    THEN Stop("period needs to be set if it hasn't been set before", s)
    ELSE Go(s)

\* "renewwindow".
renewWindowStep(req, s) ==
    IF req.renewwindow # <<>>
    THEN IF ScanUnsigned(req.renewwindow).err
         THEN Stop("unable to parse renewwindow", s)
         ELSE IF /\ ScanUnsigned(req.renewwindow).u # 0
                 /\ ScanUnsigned(req.renewwindow).u < requiredRenewWindow
         THEN Stop("renew window is too small", s)
         ELSE Go([s EXCEPT !.Allowance.RenewWindow = ScanUnsigned(req.renewwindow).u])
    ELSE IF s.Allowance.RenewWindow = 0
    THEN Go([s EXCEPT !.Allowance.RenewWindow = s.Allowance.Period \div 2])
    ELSE Go(s)

\* "expectedstorage".
expectedStorageStep(req, s) ==
    IF req.expectedstorage # <<>>
    THEN IF ScanUnsigned(req.expectedstorage).err
         THEN Stop("unable to parse expectedStorage", s)
         ELSE Go([s EXCEPT !.Allowance.ExpectedStorage =
                               ScanUnsigned(req.expectedstorage).u])
    ELSE IF s.Allowance.ExpectedStorage = 0
    THEN Go([s EXCEPT !.Allowance.ExpectedStorage =
                          DefaultRenterAllowance.ExpectedStorage])
    ELSE Go(s)

\* "expectedupload".
expectedUploadStep(req, s) ==
    IF req.expectedupload # <<>>
    THEN IF ScanUnsigned(req.expectedupload).err
         THEN Stop("unable to parse expectedUpload", s)
         ELSE Go([s EXCEPT !.Allowance.ExpectedUpload =
                               ScanUnsigned(req.expectedupload).u])
    ELSE IF s.Allowance.ExpectedUpload = 0
    THEN Go([s EXCEPT !.Allowance.ExpectedUpload =
                          DefaultRenterAllowance.ExpectedUpload])
    ELSE Go(s)

\* "expecteddownload".
expectedDownloadStep(req, s) ==
    IF req.expecteddownload # <<>>
    THEN IF ScanUnsigned(req.expecteddownload).err
         THEN Stop("unable to parse expectedDownload", s)
         ELSE Go([s EXCEPT !.Allowance.ExpectedDownload =
                               ScanUnsigned(req.expecteddownload).u])
    ELSE IF s.Allowance.ExpectedDownload = 0
    THEN Go([s EXCEPT !.Allowance.ExpectedDownload =
                          DefaultRenterAllowance.ExpectedDownload])
    ELSE Go(s)

\* "expectedredundancy".
expectedRedundancyStep(req, s) ==
    IF req.expectedredundancy # <<>>
    THEN IF ScanFloat(req.expectedredundancy).err
         THEN Stop("unable to parse expectedRedundancy", s)
         ELSE Go([s EXCEPT !.Allowance.ExpectedRedundancy =
                               ScanFloat(req.expectedredundancy).f])
    ELSE IF s.Allowance.ExpectedRedundancy = FZero
    THEN Go([s EXCEPT !.Allowance.ExpectedRedundancy =
                          DefaultRenterAllowance.ExpectedRedundancy])
    ELSE Go(s)

\* "maxdownloadspeed".
maxDownloadSpeedStep(req, s) ==
    IF req.maxdownloadspeed # <<>>
    THEN IF ScanSigned(req.maxdownloadspeed).err
         THEN Stop("unable to parse downloadspeed", s)
         ELSE Go([s EXCEPT !.MaxDownloadSpeed = ScanSigned(req.maxdownloadspeed).i])
    ELSE Go(s)

\* "maxuploadspeed".
maxUploadSpeedStep(req, s) ==
    IF req.maxuploadspeed # <<>>
    THEN IF ScanSigned(req.maxuploadspeed).err
         THEN Stop("unable to parse uploadspeed", s)
         ELSE Go([s EXCEPT !.MaxUploadSpeed = ScanSigned(req.maxuploadspeed).i])
    ELSE Go(s)

\* "streamcachesize".
streamCacheSizeStep(req, s) ==
    IF req.streamcachesize # <<>>
    THEN IF ScanUnsigned(req.streamcachesize).err
         THEN Stop("unable to parse streamcachesize", s)
         ELSE Go([s EXCEPT !.StreamCacheSize = ScanUnsigned(req.streamcachesize).u])
    ELSE Go(s)

\* "checkforipviolation".
ipViolationStep(req, s) ==
    IF req.checkforipviolation # <<>>
    THEN IF ScanFlag(req.checkforipviolation).err
         THEN Stop("unable to parse ipviolationcheck", s)
         ELSE Go([s EXCEPT !.IPViolationsCheck = ScanFlag(req.checkforipviolation).b])
    ELSE Go(s)

\* The k-th of the twelve parameters, in the order the handler scans them.
step(k, req, s) ==
    CASE k = 1  -> fundsStep(req, s)
      [] k = 2  -> hostsStep(req, s)
      [] k = 3  -> periodStep(req, s)
      [] k = 4  -> renewWindowStep(req, s)
      [] k = 5  -> expectedStorageStep(req, s)
      [] k = 6  -> expectedUploadStep(req, s)
      [] k = 7  -> expectedDownloadStep(req, s)
      [] k = 8  -> expectedRedundancyStep(req, s)
      [] k = 9  -> maxDownloadSpeedStep(req, s)
      [] k = 10 -> maxUploadSpeedStep(req, s)
      [] k = 11 -> streamCacheSizeStep(req, s)
      [] k = 12 -> ipViolationStep(req, s)

\* What a step adds to what the handler did so far: r.calls are the
\* settings it passed to renter.SetSettings.
after(r, t) == [error |-> t.error, settings |-> t.settings, calls |-> r.calls]

\* The handler from its k-th parameter on, calling renter.SetSettings as
\* soon as a parameter is scanned.
RECURSIVE postFromEager(_, _, _)
postFromEager(req, r, k) ==
    IF r.error # "" THEN r
    ELSE IF k > 12 THEN r
    ELSE postFromEager(req,
                       [after(r, step(k, req, r.settings)) EXCEPT
                           !.calls = IF step(k, req, r.settings).error = ""
                                     THEN Append(@, step(k, req, r.settings).settings)
                                     ELSE @],
                       k + 1)

\* The handler from its k-th parameter on: renter.SetSettings is called
\* with the local settings once all the parameters are scanned.
RECURSIVE postFrom(_, _, _)
postFrom(req, r, k) ==
    IF r.error # "" THEN r
    ELSE IF k > 12 THEN [r EXCEPT !.calls = Append(@, r.settings)]
    ELSE postFrom(req, after(r, step(k, req, r.settings)), k + 1)

\* renterHandlerPOST up to the return of renter.SetSettings: stored is
\* api.renter.Settings().
renterHandlerPOST(req, stored) ==
    postFrom(req, [error |-> "", settings |-> stored, calls |-> <<>>], 1)

\* renter.SetSettings applies the settings of a call as a whole or, when it
\* fails, not at all: the settings of the renter after the calls.
SetSettings(stored, calls, ok) ==
    IF calls = <<>> \/ ~ok THEN stored ELSE calls[Len(calls)]

\* What the handler answers: its own error, or the one of SetSettings.
postError(r, ok) ==
    IF r.error # "" THEN r.error
    ELSE IF ~ok THEN "SetSettings failed"
    ELSE ""

\* The characters of a decimal number or of a word.
Chars(w) ==
    CASE w = ""      -> <<>>
      [] w = "0"     -> <<"0">>
      [] w = "5"     -> <<"5">>
      [] w = "20"    -> <<"2", "0">>
      [] w = "20 x"  -> <<"2", "0", " ", "x">>
      [] w = "50"    -> <<"5", "0">>
      [] w = "100"   -> <<"1", "0", "0">>
      [] w = "288"   -> <<"2", "8", "8">>
      [] w = "500"   -> <<"5", "0", "0">>
      [] w = "-1"    -> <<"-", "1">>
      [] w = "2.5"   -> <<"2", ".", "5">>
      [] w = "true"  -> <<"t", "r", "u", "e">>
      [] w = "x"     -> <<"x">>

\* The form values of the eight parameters after the renew window: none
\* supplied, all supplied, and all supplied with one that does not parse.
Tails ==
    LET names == <<"expectedstorage", "expectedupload", "expecteddownload",
                   "expectedredundancy", "maxdownloadspeed", "maxuploadspeed",
                   "streamcachesize", "checkforipviolation">>
        good  == <<"500", "50", "20", "2.5", "-1", "100", "5", "true">>
        tail(bad, bothAbsent) ==
            [n \in {names[i] : i \in 1..8} |->
                LET i == CHOOSE i \in 1..8 : names[i] = n
                IN  IF bothAbsent THEN <<>>
                    ELSE IF i = bad THEN <<"x">>
                    ELSE Chars(good[i])]
    IN  {tail(0, TRUE)} \cup {tail(bad, FALSE) : bad \in 0..8}

\* The requests: the form values of the twelve parameters.
Requests ==
    {[funds |-> Chars(f), hosts |-> Chars(h), period |-> Chars(p),
      renewwindow |-> Chars(rw)] @@ t :
        f \in {"", "500", "x"},
        h \in {"", "0", "5", "20", "20 x", "x"},
        p \in {"", "100", "x"},
        rw \in {"", "0", "50", "288", "x"},
        t \in Tails}

\* The settings the renter may hold: never configured, configured by an
\* earlier request, and loaded from a settings file written by a dev build.
StoredSettings ==
    {ZeroSettings,
     [ZeroSettings EXCEPT !.Allowance =
         [Funds |-> BFromNat(500), Hosts |-> 50, Period |-> 6048,
          RenewWindow |-> 3024, ExpectedStorage |-> 25000,
          ExpectedUpload |-> 200, ExpectedDownload |-> 100,
          ExpectedRedundancy |-> FromNat(3)]],
     [ZeroSettings EXCEPT !.Allowance =
         [Funds |-> BFromNat(500), Hosts |-> 5, Period |-> 100,
          RenewWindow |-> 10, ExpectedStorage |-> 25000,
          ExpectedUpload |-> 200, ExpectedDownload |-> 100,
          ExpectedRedundancy |-> FromNat(3)]]}

\* POST /renter with the form values req; ok tells whether renter.SetSettings
\* succeeds when called.
RenterHandlerPOST(req, ok) ==
    /\ res = None
    /\ prev' = [field |-> "settings", settings |-> settings]
    /\ res' = [request |-> req,
               error |-> postError(renterHandlerPOST(req, settings), ok),
               calls |-> renterHandlerPOST(req, settings).calls]
    /\ settings' = SetSettings(settings,
                               renterHandlerPOST(req, settings).calls, ok)
    /\ UNCHANGED <<release, blockHeight, allowance, entry, expected,
                   activeHosts, height, contracts, oldContracts, serverVars, envVars, poolVars>>

InitSettings ==
    /\ release \in {"standard", "dev"}
    /\ blockHeight = 0
    /\ allowance = DefaultAllowance
    /\ entry = DefaultEntry
    /\ expected = expectedStorage
    /\ res = None
    /\ prev = None
    /\ activeHosts = <<>>
    /\ height = 0
    /\ contracts = <<>>
    /\ oldContracts = <<>>
    /\ settings \in StoredSettings
    /\ ServerUnset
    /\ EnvUnset
    /\ PoolUnset

NextSettings ==
    \E req \in Requests, ok \in BOOLEAN : RenterHandlerPOST(req, ok)

SpecSettings == InitSettings /\ [][NextSettings]_vars

\* The handler answered a request; prev.settings are the settings the
\* renter held before.
Posted == res # None /\ prev # None /\ prev.field = "settings"

\* Every parameter that the request supplies parses and passes the
\* handler's tests, and the period is supplied or was set before.
Valid(req, stored) ==
    /\ req.funds # <<>> => scanAmount(req.funds).ok
    /\ req.hosts # <<>> =>
          /\ ~ScanUnsigned(req.hosts).err
          /\ ScanUnsigned(req.hosts).u \notin 1..(requiredHosts - 1)
    /\ req.period # <<>> => ~ScanUnsigned(req.period).err
    /\ req.period = <<>> => stored.Allowance.Period # 0
    /\ req.renewwindow # <<>> =>
          /\ ~ScanUnsigned(req.renewwindow).err
          /\ ScanUnsigned(req.renewwindow).u \notin 1..(requiredRenewWindow - 1)
    /\ req.expectedstorage # <<>> => ~ScanUnsigned(req.expectedstorage).err
    /\ req.expectedupload # <<>> => ~ScanUnsigned(req.expectedupload).err
    /\ req.expecteddownload # <<>> => ~ScanUnsigned(req.expecteddownload).err
    /\ req.expectedredundancy # <<>> => ~ScanFloat(req.expectedredundancy).err
    /\ req.maxdownloadspeed # <<>> => ~ScanSigned(req.maxdownloadspeed).err
    /\ req.maxuploadspeed # <<>> => ~ScanSigned(req.maxuploadspeed).err
    /\ req.streamcachesize # <<>> => ~ScanUnsigned(req.streamcachesize).err
    /\ req.checkforipviolation # <<>> => ~ScanFlag(req.checkforipviolation).err

\* C19: a request calls renter.SetSettings at most once, and only when
\* every parameter it supplies is valid; a request answered with an error
\* leaves the renter's settings as they were, and a request answered with
\* success leaves the settings of its one call.
C19_SettingsSetAtOnce ==
    Posted =>
        /\ Len(res.calls) <= 1
        /\ res.calls # <<>> <=> Valid(res.request, prev.settings)
        /\ res.error # "" => settings = prev.settings
        /\ res.error = "" => (res.calls # <<>> /\ settings = res.calls[1])

\* C19's case: a request whose funds, hosts, period and renew window are
\* valid and whose last parameter does not parse is answered with an error,
\* and the renter's settings are the ones from before, which the valid
\* parameters would have changed.
C19_Witness ==
    /\ Posted
    /\ res.request.funds # <<>>
    /\ res.request.hosts = <<"2", "0">>
    /\ res.request.period = <<"1", "0", "0">>
    /\ res.request.renewwindow = <<"2", "8", "8">>
    /\ res.request.checkforipviolation = <<"x">>
    /\ res.error = "unable to parse ipviolationcheck"
    /\ res.calls = <<>>
    /\ settings = prev.settings
    /\ settings.Allowance.Hosts # 20

\* C20: the settings of every call of renter.SetSettings have at least
\* requiredHosts hosts and a renew window of at least requiredRenewWindow.
C20_SettingsAboveMinimum ==
    Posted =>
        \A i \in 1..Len(res.calls) :
            /\ res.calls[i].Allowance.Hosts >= requiredHosts
            /\ res.calls[i].Allowance.RenewWindow >= requiredRenewWindow

-----------------------------------------------------------------------------
(* The API server: Server.Serve, its signal goroutine and Server.Close as  *)
(* processes that take one step at a time.                                 *)

\* The modules of Server.Close, in the order of its list.
ModuleNames ==
    <<"host", "renter", "explorer", "miner", "wallet", "tpool", "consensus",
      "gateway">>

\* The calls of Server.Close: the explicit one and the one of the signal
\* goroutine.
Closers == {"main", "signal"}

\* A call of Close that has not been made: its position, the index of the
\* module it is at, the closes that failed, the modules it closed, and
\* where Serve stood when wg.Wait returned and when Close returned.
NotCalled ==
    [pc |-> "idle", i |-> 0, errs |-> <<>>, closed |-> <<>>,
     waited |-> "none", left |-> "none"]

\* Serve is between its call and its return.
ServeRunning == serve \in {"called", "added", "serving", "deferred", "stopped"}

\* go srv.Serve() or srv.Serve(): the call is made.
ServeCall ==
    /\ serve = "idle"
    /\ serve' = "called"
    /\ UNCHANGED <<release, blockHeight, allowance, entry, expected, res, prev,
                   activeHosts, renterVars, listener, wg, sigpc, closers, mods, envVars, poolVars>>

\* srv.wg.Add(1), with wg.Done deferred.
ServeAdd ==
    /\ serve = "called"
    /\ wg' = wg + 1
    /\ serve' = "added"
    /\ UNCHANGED <<release, blockHeight, allowance, entry, expected, res, prev,
                   activeHosts, renterVars, listener, sigpc, closers, mods, envVars, poolVars>>

\* signal.Notify and the start of the signal goroutine; Serve then blocks
\* in apiServer.Serve.
ServeGo ==
    /\ serve = "added"
    /\ sigpc' = "select"
    /\ serve' = "serving"
    /\ UNCHANGED <<release, blockHeight, allowance, entry, expected, res, prev,
                   activeHosts, renterVars, listener, wg, closers, mods, envVars, poolVars>>

\* apiServer.Serve returns once the listener is closed.
ServeReturn ==
    /\ serve = "serving"
    /\ listener.closes > 0
    /\ serve' = "deferred"
    /\ UNCHANGED <<release, blockHeight, allowance, entry, expected, res, prev,
                   activeHosts, renterVars, listener, wg, sigpc, closers, mods, envVars, poolVars>>

\* The deferred close(stop) and signal.Stop(sigChan).
ServeCloseStop ==
    /\ serve = "deferred"
    /\ serve' = "stopped"
    /\ UNCHANGED <<release, blockHeight, allowance, entry, expected, res, prev,
                   activeHosts, renterVars, listener, wg, sigpc, closers, mods, envVars, poolVars>>

\* The deferred srv.wg.Done(); Serve has returned.
ServeDone ==
    /\ serve = "stopped"
    /\ wg' = wg - 1
    /\ serve' = "done"
    /\ UNCHANGED <<release, blockHeight, allowance, entry, expected, res, prev,
                   activeHosts, renterVars, listener, sigpc, closers, mods, envVars, poolVars>>

\* case <-sigChan: a stop signal was caught, the goroutine calls srv.Close.
SignalCaught ==
    /\ sigpc = "select"
    /\ serve \in {"serving", "deferred", "stopped"}
    /\ sigpc' = "closing"
    /\ closers' = [closers EXCEPT !["signal"].pc = "called"]
    /\ UNCHANGED <<release, blockHeight, allowance, entry, expected, res, prev,
                   activeHosts, renterVars, listener, wg, serve, mods, envVars, poolVars>>

\* case <-stop: Serve has closed stop, the goroutine ends.
SignalStopped ==
    /\ sigpc = "select"
    /\ serve \in {"stopped", "done"}
    /\ sigpc' = "done"
    /\ UNCHANGED <<release, blockHeight, allowance, entry, expected, res, prev,
                   activeHosts, renterVars, listener, wg, serve, closers, mods, envVars, poolVars>>

\* An explicit call of srv.Close().
CloseCall ==
    /\ closers["main"].pc = "idle"
    /\ closers' = [closers EXCEPT !["main"].pc = "called"]
    /\ UNCHANGED <<release, blockHeight, allowance, entry, expected, res, prev,
                   activeHosts, renterVars, listener, wg, serve, sigpc, mods, envVars, poolVars>>

\* The errors of a call after one more close, which failed or did not.
appendErr(errs, name, failed) == IF failed THEN Append(errs, name) ELSE errs

\* srv.listener.Close(): closing a closed listener is an error.
CloseListener(c) ==
    /\ closers[c].pc = "called"
    /\ listener' = [listener EXCEPT !.closes = @ + 1]
    /\ closers' = [closers EXCEPT
            ![c].pc = "wait",
            ![c].errs = appendErr(@, "listener",
                                  listener.fails \/ listener.closes > 0)]
    /\ UNCHANGED <<release, blockHeight, allowance, entry, expected, res, prev,
                   activeHosts, renterVars, wg, serve, sigpc, mods, envVars, poolVars>>

\* srv.wg.Wait() returns when the counter is zero.
CloseWait(c) ==
    /\ closers[c].pc = "wait"
    /\ wg = 0
    /\ closers' = [closers EXCEPT
            ![c].pc = "mods", ![c].i = 1, ![c].waited = serve]
    /\ UNCHANGED <<release, blockHeight, allowance, entry, expected, res, prev,
                   activeHosts, renterVars, listener, wg, serve, sigpc, mods, envVars, poolVars>>

\* The modules after mod.c.Close() of the module called name, a nil module
\* being skipped.
closeModule(ms, name) ==
    IF ms[name].present THEN [ms EXCEPT ![name].closes = @ + 1] ELSE ms

\* One round of the loop over the modules.
CloseModule(c) ==
    /\ closers[c].pc = "mods"
    /\ closers[c].i <= Len(ModuleNames)
    /\ LET name == ModuleNames[closers[c].i]
       IN  /\ mods' = closeModule(mods, name)
           /\ closers' = [closers EXCEPT
                   ![c].i = @ + 1,
                   ![c].closed = IF mods[name].present
                                 THEN Append(@, name) ELSE @,
                   ![c].errs = appendErr(@, name,
                                         mods[name].present
                                         /\ mods[name].fails)]
    /\ UNCHANGED <<release, blockHeight, allowance, entry, expected, res, prev,
                   activeHosts, renterVars, listener, wg, serve, sigpc, envVars, poolVars>>

\* return build.JoinErrors(errs, "\n"): nil when no close failed.
CloseReturn(c) ==
    /\ closers[c].pc = "mods"
    /\ closers[c].i > Len(ModuleNames)
    /\ closers' = [closers EXCEPT ![c].pc = "returned", ![c].left = serve]
    /\ sigpc' = IF c = "signal" THEN "done" ELSE sigpc
    /\ UNCHANGED <<release, blockHeight, allowance, entry, expected, res, prev,
                   activeHosts, renterVars, listener, wg, serve, mods, envVars, poolVars>>

\* The error Close returned: TRUE for an error, FALSE for nil.
closeError(c) == closers[c].errs # <<>>

\* The sets of modules that are not nil, and of modules whose Close fails.
Modules == {ModuleNames[k] : k \in 1..Len(ModuleNames)}

PresentSets ==
    { Modules,
      {"host", "renter", "wallet", "tpool", "consensus", "gateway"},
      {"consensus", "gateway"} }

FailingSets == { {}, {"renter"}, {"host", "gateway"} }

InitServer ==
    /\ release = "standard"
    /\ blockHeight = 100
    /\ allowance = DefaultAllowance
    /\ entry = DefaultEntry
    /\ expected = expectedStorage
    /\ res = None
    /\ prev = None
    /\ activeHosts = <<>>
    /\ RenterUnset
    /\ \E fails \in BOOLEAN : listener = [closes |-> 0, fails |-> fails]
    /\ wg = 0
    /\ serve = "idle"
    /\ sigpc = "idle"
    /\ closers = [c \in Closers |-> NotCalled]
    /\ \E present \in PresentSets, failing \in FailingSets :
         mods = [name \in Modules |->
                    [present |-> name \in present,
                     fails |-> name \in failing,
                     closes |-> 0]]
    /\ EnvUnset
    /\ PoolUnset

NextServer ==
    \/ ServeCall
    \/ ServeAdd
    \/ ServeGo
    \/ ServeReturn
    \/ ServeCloseStop
    \/ ServeDone
    \/ SignalCaught
    \/ SignalStopped
    \/ CloseCall
    \/ \E c \in Closers : CloseListener(c)
    \/ \E c \in Closers : CloseWait(c)
    \/ \E c \in Closers : CloseModule(c)
    \/ \E c \in Closers : CloseReturn(c)

SpecServer == InitServer /\ [][NextServer]_vars

\* C21: when a call of Server.Close returns, Server.Serve has finished: no
\* call of Serve made before is still running, in every interleaving of
\* Serve and Close, the one where Close runs before Serve has executed
\* wg.Add included.
C21_CloseWaitsForServe ==
    \A c \in Closers :
        closers[c].pc = "returned" => closers[c].left \in {"idle", "done"}

\* C22: Close closes every module that is not nil, in the order of
\* ModuleNames and only after the listener is closed and Serve has exited;
\* a failed close does not keep the remaining modules from being closed,
\* and Close returns an error iff one of its closes failed.
C22_CloseAllInOrder ==
    \A c \in Closers :
        /\ closers[c].pc \in {"mods", "returned"} =>
              /\ listener.closes > 0
              /\ closers[c].waited \in {"idle", "done"}
        /\ closers[c].pc = "returned" =>
              /\ closers[c].closed
                    = SelectSeq(ModuleNames, LAMBDA n : mods[n].present)
              /\ closeError(c)
                    <=> \/ \E k \in 1..Len(closers[c].errs) :
                              closers[c].errs[k] = "listener"
                        \/ \E n \in Modules :
                              mods[n].present /\ mods[n].fails

\* C30: over every interleaving of a caught stop signal and explicit calls
\* of Close, the listener and each module are closed at most once.
C30_ClosedAtMostOnce ==
    /\ listener.closes <= 1
    /\ \A n \in Modules : mods[n].closes <= 1

-----------------------------------------------------------------------------
(* The Environment: CreateEnvironment and initializeNetwork, the RPCs      *)
(* AcceptBlock and AcceptTransaction, and the listener.                    *)

\* The capacity of e.blockChan and of e.transactionChan (100 in the code).
ChanCap == 2

\* The blocks and the transactions that peers hand to the node.
Blocks == {"b1", "b2", "b3"}

Transactions == {"t1", "t2", "t3"}

\* The variables of the other parts of the node, which the Environment
\* leaves alone.
nodeVars ==
    <<release, blockHeight, allowance, entry, expected, res, prev,
      activeHosts, renterVars, serverVars>>

\* A node that starts the listener on both paths of initializeNetwork.
startListenTwice(ls) ==
    ls \o <<[pc |-> "select", item |-> "none"],
            [pc |-> "select", item |-> "none"]>>

\* go e.listen(): one more goroutine running the listener.
startListen(ls) == Append(ls, [pc |-> "select", item |-> "none"])

\* The channel after a receive.
receive(ch) == Tail(ch)

\* e.server.Register(...): NewTCPServer has started the RPC server, and the
\* RPCs are registered.
Register ==
    /\ envpc = "start"
    /\ envpc' = "registered"
    /\ UNCHANGED <<nodeVars, blockChan, transactionChan, listeners, rpcs,
                   envlog, poolVars>>

\* initializeNetwork with nobootstrap: the listener is started at once.
NoBootstrap ==
    /\ envpc = "registered"
    /\ listeners' = startListen(listeners)
    /\ envpc' = "created"
    /\ UNCHANGED <<nodeVars, blockChan, transactionChan, rpcs, envlog, poolVars>>

\* initializeNetwork bootstrapping: e.server.Bootstrap() succeeds, and the
\* listener is started, or it fails and initializeNetwork returns the error.
Bootstrap(ok) ==
    /\ envpc = "registered"
    /\ listeners' = IF ok THEN startListen(listeners) ELSE listeners
    /\ envpc' = IF ok THEN "created" ELSE "failed"
    /\ UNCHANGED <<nodeVars, blockChan, transactionChan, rpcs, envlog, poolVars>>

\* A peer calls the RPC AcceptBlock or AcceptTransaction with item x.
CallAccept(x) ==
    /\ envpc # "start"
    /\ rpcs[x] = "new"
    /\ rpcs' = [rpcs EXCEPT ![x] = "sending"]
    /\ UNCHANGED <<nodeVars, envpc, blockChan, transactionChan, listeners,
                   envlog, poolVars>>

\* e.blockChan <- b; return nil. The send waits while the channel is full.
AcceptBlock(b) ==
    /\ rpcs[b] = "sending"
    /\ Len(blockChan) < ChanCap
    /\ blockChan' = Append(blockChan, b)
    /\ rpcs' = [rpcs EXCEPT ![b] = "returned"]
    /\ envlog' = [envlog EXCEPT !.blocksIn = Append(@, b)]
    /\ UNCHANGED <<nodeVars, envpc, transactionChan, listeners, poolVars>>

\* e.transactionChan <- t; return nil.
AcceptTransaction(t) ==
    /\ rpcs[t] = "sending"
    /\ Len(transactionChan) < ChanCap
    /\ transactionChan' = Append(transactionChan, t)
    /\ rpcs' = [rpcs EXCEPT ![t] = "returned"]
    /\ envlog' = [envlog EXCEPT !.transactionsIn = Append(@, t)]
    /\ UNCHANGED <<nodeVars, envpc, blockChan, listeners, poolVars>>

\* case b := <-e.blockChan, in the listener k.
ListenBlock(k) ==
    /\ listeners[k].pc = "select"
    /\ blockChan # <<>>
    /\ listeners' = [listeners EXCEPT
            ![k] = [pc |-> "block", item |-> Head(blockChan)]]
    /\ blockChan' = receive(blockChan)
    /\ UNCHANGED <<nodeVars, envpc, transactionChan, rpcs, envlog, poolVars>>

\* case t := <-e.transactionChan, in the listener k.
ListenTransaction(k) ==
    /\ listeners[k].pc = "select"
    /\ transactionChan # <<>>
    /\ listeners' = [listeners EXCEPT
            ![k] = [pc |-> "transaction", item |-> Head(transactionChan)]]
    /\ transactionChan' = receive(transactionChan)
    /\ UNCHANGED <<nodeVars, envpc, blockChan, rpcs, envlog, poolVars>>

\* e.processBlock(b) runs and returns to the select.
processBlock(k) ==
    /\ listeners[k].pc = "block"
    /\ envlog' = [envlog EXCEPT !.blocksOut = Append(@, listeners[k].item)]
    /\ listeners' = [listeners EXCEPT
            ![k] = [pc |-> "select", item |-> "none"]]
    /\ UNCHANGED <<nodeVars, envpc, blockChan, transactionChan, rpcs, poolVars>>

\* e.processTransaction(t) runs and returns to the select.
processTransaction(k) ==
    /\ listeners[k].pc = "transaction"
    /\ envlog' = [envlog EXCEPT
            !.transactionsOut = Append(@, listeners[k].item)]
    /\ listeners' = [listeners EXCEPT
            ![k] = [pc |-> "select", item |-> "none"]]
    /\ UNCHANGED <<nodeVars, envpc, blockChan, transactionChan, rpcs, poolVars>>

\* One step of a listener.
Listen ==
    \E k \in DOMAIN listeners :
        \/ ListenBlock(k)
        \/ ListenTransaction(k)
        \/ processBlock(k)
        \/ processTransaction(k)

\* One step of a call of AcceptBlock or AcceptTransaction.
Accept ==
    \/ \E b \in Blocks : AcceptBlock(b)
    \/ \E t \in Transactions : AcceptTransaction(t)

InitEnvironment ==
    /\ release = "standard"
    /\ blockHeight = 100
    /\ allowance = DefaultAllowance
    /\ entry = DefaultEntry
    /\ expected = expectedStorage
    /\ res = None
    /\ prev = None
    /\ activeHosts = <<>>
    /\ RenterUnset
    /\ ServerUnset
    /\ envpc = "start"
    /\ blockChan = <<>>
    /\ transactionChan = <<>>
    /\ listeners = <<>>
    /\ rpcs = [x \in Blocks \cup Transactions |-> "new"]
    /\ envlog = [blocksIn |-> <<>>, blocksOut |-> <<>>,
                 transactionsIn |-> <<>>, transactionsOut |-> <<>>]
    /\ PoolUnset

\* initializeNetwork after the RPCs are registered, on either path.
Initialize ==
    \/ NoBootstrap
    \/ \E ok \in BOOLEAN : Bootstrap(ok)
    /\ PoolUnset

NextEnvironment ==
    \/ Register
    \/ Initialize
    \/ \E x \in Blocks \cup Transactions : CallAccept(x)
    \/ Accept
    \/ Listen

SpecEnvironment == InitEnvironment /\ [][NextEnvironment]_vars

\* The goroutine of CreateEnvironment, the listener goroutine and the
\* goroutines of the RPC calls are scheduled again and again.
SpecEnvironmentFair ==
    /\ SpecEnvironment
    /\ WF_vars(Initialize)
    /\ WF_vars(Listen)
    /\ \A x \in Blocks : WF_vars(AcceptBlock(x))
    /\ \A x \in Transactions : WF_vars(AcceptTransaction(x))

\* The listeners that are inside processBlock or processTransaction.
Processing == {k \in DOMAIN listeners : listeners[k].pc # "select"}

\* s is a prefix of t.
IsPrefix(s, t) == Len(s) <= Len(t) /\ s = SubSeq(t, 1, Len(s))

\* The items taken from a channel so far: those processed, then the one
\* being processed.
Taken(out, kind) ==
    out \o [j \in 1..Cardinality({k \in Processing : listeners[k].pc = kind})
               |-> listeners[CHOOSE k \in Processing :
                                 listeners[k].pc = kind].item]

\* C23: at most one block or transaction is being processed at any time,
\* blocks are processed in the order AcceptBlock enqueued them and
\* transactions in the order AcceptTransaction enqueued them, and no
\* enqueued item is processed twice.
C23_OneListenerInOrder ==
    /\ Cardinality(Processing) <= 1
    /\ IsPrefix(Taken(envlog.blocksOut, "block"), envlog.blocksIn)
    /\ IsPrefix(Taken(envlog.transactionsOut, "transaction"),
                envlog.transactionsIn)

C23_Witness ==
    /\ Len(envlog.blocksOut) >= 2
    /\ Len(envlog.transactionsOut) >= 1
    /\ envlog.blocksIn # <<"b1", "b2", "b3">>
    /\ Cardinality(Processing) = 1

\* C27: once the RPCs are registered, every block and transaction handed to
\* them is eventually processed and the call eventually returns, whether
\* bootstrapping succeeds or fails.
C27_EventuallyProcessed ==
    \A x \in Blocks \cup Transactions :
        (rpcs[x] = "sending") ~>
            /\ rpcs[x] = "returned"
            /\ \/ \E j \in 1..Len(envlog.blocksOut) : envlog.blocksOut[j] = x
               \/ \E j \in 1..Len(envlog.transactionsOut) :
                     envlog.transactionsOut[j] = x

-----------------------------------------------------------------------------
(* The scoring functions on every allowance, and the lifetime adjustment   *)
(* over a sequence of block heights (SpecHeights).                         *)

\* C28: priceAdjustments returns a value for every allowance, one with
\* period = 0 included: it never divides by zero.
C28_PriceAdjustmentsTotal == res # Panicked

\* Heights below, at and above the block 13000, in which the host is
\* announced.
HeightsSeen == {0, 12999, 13000, 13143, 13144, 14999, 24999, 25000}

\* The consensus set moves the host database to height h: forward as blocks
\* arrive, backward in a reorganization.
HeightChanges(h) ==
    /\ h # blockHeight
    /\ blockHeight' = h
    /\ UNCHANGED <<release, allowance, entry, expected, res, prev,
                   activeHosts, renterVars, serverVars, envVars, poolVars>>

\* hdb.lifetimeAdjustments(entry) at the current height; the result of the
\* call before is kept in prev.
LifetimeAtHeight ==
    /\ IF res = None THEN TRUE ELSE res.height # blockHeight
    /\ res' = [height |-> blockHeight, weight |-> lifetimeAdjustments(entry)]
    /\ prev' = res
    /\ UNCHANGED <<release, blockHeight, allowance, entry, expected,
                   activeHosts, renterVars, serverVars, envVars, poolVars>>

InitHeights ==
    /\ release = "standard"
    /\ entry = [DefaultEntry EXCEPT !.FirstSeen = 13000]
    /\ blockHeight \in HeightsSeen
    /\ allowance = DefaultAllowance
    /\ expected = expectedStorage
    /\ res = None
    /\ prev = None
    /\ activeHosts = <<>>
    /\ RenterUnset
    /\ ServerUnset
    /\ EnvUnset
    /\ PoolUnset

NextHeights ==
    \/ \E h \in HeightsSeen : HeightChanges(h)
    \/ LifetimeAtHeight

SpecHeights == InitHeights /\ [][NextHeights]_vars

\* C29: for a fixed FirstSeen the lifetime adjustment of a host is never
\* lower at a higher block height than at a lower one, heights below
\* FirstSeen included.
C29_AgeFactorNeverDecreases ==
    (res # None /\ prev # None /\ prev.height <= res.height)
        => FLeq(prev.weight, res.weight)

-----------------------------------------------------------------------------
(* API handlers that answer with WriteError or WriteJSON: what one request *)
(* makes the handler write and call, in order (SpecHandlers).              *)

\* WriteError(w, Error{msg}, http.StatusBadRequest).
WriteError(log, msg) == Append(log, [ev |-> "WriteError", what |-> msg])

\* WriteJSON(w, ...).
WriteJSON(log) == Append(log, [ev |-> "WriteJSON", what |-> "response"])

\* A call into the wallet or the renter.
callModule(log, fn, args) ==
    Append(log, [ev |-> "call", what |-> fn, args |-> args])

\* The number a sequence of digits writes, of any size.
RECURSIVE digitsBig(_, _)
digitsBig(t, acc) ==
    IF t = <<>> THEN acc
    ELSE LET v == Add(Mul(BFromNat(10), acc), BFromNat(DigitValue[Head(t)]))
         IN  IF Len(v) >= 0 THEN digitsBig(Tail(t), v) ELSE <<>>

\* strconv.ParseUint(s, 10, 64): digits only, no sign, at most MaxUint64.
ParseUint(t) ==
    IF AllDigits(t) /\ Cmp(digitsBig(t, <<>>), MaxUint64) <= 0
    THEN [err |-> FALSE, u |-> digitsBig(t, <<>>)]
    ELSE [err |-> TRUE, u |-> <<>>]

\* strconv.ParseBool(s).
ParseBool(t) ==
    IF t \in {<<"1">>, <<"t">>, <<"T">>, <<"t", "r", "u", "e">>}
    THEN [err |-> FALSE, b |-> TRUE]
    ELSE IF t \in {<<"0">>, <<"f">>, <<"F">>, <<"f", "a", "l", "s", "e">>}
    THEN [err |-> FALSE, b |-> FALSE]
    ELSE [err |-> TRUE, b |-> FALSE]

\* a - b on uint64: the difference modulo 2^64.
SubUint64(a, b) ==
    IF Cmp(a, b) >= 0 THEN Sub(a, b) ELSE Sub(Add(a, BShl(<<1>>, 64)), b)

\* A depth range that is clamped at 0, as a signed subtraction would allow.
depthStartClamped(end, depth) ==
    IF Cmp(end, Add(depth, <<1>>)) >= 0
    THEN Sub(end, Add(depth, <<1>>)) ELSE <<>>

\* start = end - depth - 1; if start < 0 { start = 0 }: start is a uint64,
\* which is never below 0.
depthStart(end, depth) == SubUint64(SubUint64(end, depth), <<1>>)

\* api.wallet.Transactions(start, end) and UnconfirmedTransactions(), then
\* the response; fail names the wallet call that returns an error.
walletQuery(log, start, end, fail) ==
    IF fail = "Transactions"
    THEN WriteError(callModule(log, "Transactions", <<start, end>>),
                    "error when calling /wallet/transactions")
    ELSE IF fail = "UnconfirmedTransactions"
    THEN WriteError(
             callModule(callModule(log, "Transactions", <<start, end>>),
                        "UnconfirmedTransactions", <<>>),
             "error when calling /wallet/transactions")
    ELSE WriteJSON(
             callModule(callModule(log, "Transactions", <<start, end>>),
                        "UnconfirmedTransactions", <<>>))

\* The branch of the handler for a request with depth.
walletDepth(log, req, h, fail) ==
    IF req.startheight # <<>> \/ req.endheight # <<>>
    THEN WriteError(log, "startheight and endheight must not be provided")
    ELSE IF ParseUint(req.depth).err
    THEN WriteError(log, "parsing integer value for parameter depth failed")
    ELSE IF fail = "Height"
    THEN WriteError(callModule(log, "Height", <<>>),
                    "Error when calling /wallet")
    ELSE walletQuery(callModule(log, "Height", <<>>),
                     depthStart(h, ParseUint(req.depth).u), h, fail)

\* The end of the range: -1 stands for math.MaxUint64.
walletEnd(t) ==
    IF t = <<"-", "1">> THEN [err |-> FALSE, u |-> MaxUint64] ELSE ParseUint(t)

\* The branch of the handler for a request without depth.
walletRange(log, req, fail) ==
    IF req.startheight = <<>> \/ req.endheight = <<>>
    THEN WriteError(log, "startheight and endheight must be provided")
    ELSE IF ParseUint(req.startheight).err
    THEN WriteError(log,
                    "parsing integer value for parameter startheight failed")
    ELSE IF walletEnd(req.endheight).err
    THEN WriteError(log,
                    "parsing integer value for parameter endheight failed")
    ELSE walletQuery(log, ParseUint(req.startheight).u,
                     walletEnd(req.endheight).u, fail)

\* The test for parameters that do not go together: the error is written,
\* and the handler goes on.
walletIncompatible(log, req) ==
    IF req.watchonly # <<>> \/ req.count # <<>> \/ req.category # <<>>
    THEN WriteError(log, "startheight, endheight, and depth are incompatible")
    ELSE log

\* The category passed to the wallet: a category other than send or receive
\* writes an error only under err != nil, and err is nil there.
walletCategory(t) ==
    IF t \in {<<"s", "e", "n", "d">>, <<"r", "e", "c", "e", "i", "v", "e">>}
    THEN t ELSE <<>>

\* The branch of the handler for count, watchonly and category.
walletFiltered(log, req) ==
    IF req.count # <<>> /\ ParseUint(req.count).err
    THEN WriteError(log, "parsing integer value for parameter count failed")
    ELSE IF req.watchonly # <<>> /\ ParseBool(req.watchonly).err
    THEN WriteError(log,
                    "parsing integer value for parameter watchonly failed")
    ELSE WriteJSON(
             callModule(
                 callModule(log, "FilteredTransactions",
                            <<IF req.count = <<>> THEN BFromNat(10)
                              ELSE ParseUint(req.count).u,
                              ParseBool(req.watchonly).b,
                              walletCategory(req.category)>>),
                 "FilteredUnconfirmedTransactions",
                 <<ParseBool(req.watchonly).b, walletCategory(req.category)>>))

\* API.walletTransactionsHandler for the request req, with the wallet at
\* height h.
walletTransactionsHandler(req, h, fail) ==
    IF req.depth # <<>> \/ req.startheight # <<>> \/ req.endheight # <<>>
    THEN IF req.depth = <<>>
         THEN walletRange(walletIncompatible(<<>>, req), req, fail)
         ELSE walletDepth(walletIncompatible(<<>>, req), req, h, fail)
    ELSE walletFiltered(<<>>, req)

\* modules.Allowance{}: the allowance renterPricesHandler starts from.
EmptyAllowance ==
    [Funds |-> <<>>, Hosts |-> 0, Period |-> 0, RenewWindow |-> 0]

\* api.renter.PriceEstimation(allowance), then the response.
pricesEstimate(log, al, fail) ==
    IF fail
    THEN WriteError(callModule(log, "PriceEstimation", <<al>>),
                    "price estimation failed")
    ELSE WriteJSON(callModule(log, "PriceEstimation", <<al>>))

\* The tests of an allowance that is set in part.
pricesCheck(log, al, fail) ==
    IF al = EmptyAllowance THEN pricesEstimate(log, al, fail)
    ELSE IF al.Funds = <<>>
    THEN WriteError(log, "Allowance not set correctly, funds left empty")
    ELSE IF al.Period = 0
    THEN WriteError(log, "Allowance not set correctly, period left empty")
    ELSE IF al.Hosts = 0
    THEN WriteError(log, "Allowance not set correctly, hosts left empty")
    ELSE IF al.RenewWindow = 0
    THEN WriteError(log, "Allowance not set correctly, renewwindow left empty")
    ELSE pricesEstimate(log, al, fail)

\* The parameter renewwindow.
pricesRenewWindow(log, al, req, fail) ==
    IF req.renewwindow = <<>> THEN pricesCheck(log, al, fail)
    ELSE IF ScanUnsigned(req.renewwindow).err
    THEN WriteError(log, "unable to parse renewwindow")
    ELSE IF ScanUnsigned(req.renewwindow).u # 0
            /\ ScanUnsigned(req.renewwindow).u < requiredRenewWindow
    THEN WriteError(log, "renew window is too small")
    ELSE pricesCheck(log,
                     [al EXCEPT !.RenewWindow = ScanUnsigned(req.renewwindow).u],
                     fail)

\* The parameter period.
pricesPeriod(log, al, req, fail) ==
    IF req.period = <<>> THEN pricesRenewWindow(log, al, req, fail)
    ELSE IF ScanUnsigned(req.period).err
    THEN WriteError(log, "unable to parse period")
    ELSE pricesRenewWindow(log,
                           [al EXCEPT !.Period = ScanUnsigned(req.period).u],
                           req, fail)

\* The parameter hosts: too few hosts write an error, and the handler goes
\* on with the number of hosts unset.
pricesHosts(log, al, req, fail) ==
    IF req.hosts = <<>> THEN pricesPeriod(log, al, req, fail)
    ELSE IF ScanUnsigned(req.hosts).err
    THEN WriteError(log, "unable to parse hosts")
    ELSE IF ScanUnsigned(req.hosts).u # 0
            /\ ScanUnsigned(req.hosts).u < requiredHosts
    THEN pricesPeriod(WriteError(log, "insufficient number of hosts"),
                      al, req, fail)
    ELSE pricesPeriod(log, [al EXCEPT !.Hosts = ScanUnsigned(req.hosts).u],
                      req, fail)

\* API.renterPricesHandler for the request req.
renterPricesHandler(req, fail) ==
    IF req.funds = <<>> THEN pricesHosts(<<>>, EmptyAllowance, req, fail)
    ELSE IF ~scanAmount(req.funds).ok
    THEN WriteError(<<>>, "unable to parse funds")
    ELSE pricesHosts(<<>>,
                     [EmptyAllowance EXCEPT !.Funds = scanAmount(req.funds).c],
                     req, fail)

\* The values a height parameter of /wallet/transactions takes.
HeightParams ==
    {<<>>, <<"0">>, <<"3">>, <<"5">>, <<"x">>, <<"-", "1">>,
     <<"1", "8", "4", "4", "6", "7", "4", "4", "0", "7", "3", "7", "0", "9",
       "5", "5", "1", "6", "1", "5">>}

\* The requests to /wallet/transactions.
WalletRequests ==
    [depth : HeightParams \ {<<"-", "1">>},
     startheight : {<<>>, <<"0">>, <<"x">>},
     endheight : {<<>>, <<"3">>, <<"-", "1">>},
     count : {<<>>, <<"2">>},
     watchonly : {<<>>, <<"t">>},
     category : {<<>>, <<"s", "e", "n", "d">>, <<"x">>}]

\* The heights of the wallet.
WalletHeights == {<<>>, BFromNat(3), BFromNat(100)}

\* The requests to /renter/prices.
PricesRequests ==
    [funds : {<<>>, <<"5", "0", "0">>, <<"x">>},
     hosts : {<<>>, <<"0">>, <<"5">>, <<"5", "0">>, <<"x">>},
     period : {<<>>, <<"1", "0", "0">>},
     renewwindow : {<<>>, <<"2", "8", "8">>, <<"5">>}]

\* A request to /wallet/transactions is served.
WalletTransactionsHandler(req, h, fail) ==
    /\ res = None
    /\ res' = [handler |-> "walletTransactionsHandler", req |-> req,
               height |-> h,
               log |-> walletTransactionsHandler(req, h, fail)]
    /\ UNCHANGED <<release, blockHeight, allowance, entry, expected, prev,
                   activeHosts, renterVars, serverVars, envVars, poolVars>>

\* A request to /renter/prices is served.
RenterPricesHandler(req, fail) ==
    /\ res = None
    /\ res' = [handler |-> "renterPricesHandler", req |-> req,
               log |-> renterPricesHandler(req, fail)]
    /\ UNCHANGED <<release, blockHeight, allowance, entry, expected, prev,
                   activeHosts, renterVars, serverVars, envVars, poolVars>>

InitHandlers ==
    /\ release = "standard"
    /\ blockHeight = 100
    /\ allowance = DefaultAllowance
    /\ entry = DefaultEntry
    /\ expected = expectedStorage
    /\ res = None
    /\ prev = None
    /\ activeHosts = <<>>
    /\ RenterUnset
    /\ ServerUnset
    /\ EnvUnset
    /\ PoolUnset

NextHandlers ==
    \/ \E req \in WalletRequests, h \in WalletHeights,
          fail \in {"none", "Height", "Transactions",
                    "UnconfirmedTransactions"} :
            WalletTransactionsHandler(req, h, fail)
    \/ \E req \in PricesRequests, fail \in BOOLEAN :
            RenterPricesHandler(req, fail)

SpecHandlers == InitHandlers /\ [][NextHandlers]_vars

\* The events of the kind ev in the log of the request served.
Events(ev) == SelectSeq(res.log, LAMBDA x : x.ev = ev)

\* The request served gave a depth, and the handler queried the wallet.
DepthQueried ==
    /\ res # None
    /\ res.handler = "walletTransactionsHandler"
    /\ res.req.depth # <<>>
    /\ \E k \in 1..Len(res.log) : res.log[k].what = "Transactions"

\* The range the handler queried the wallet for.
Queried ==
    res.log[CHOOSE k \in 1..Len(res.log) :
                res.log[k].what = "Transactions"].args

\* C24: with depth given, the queried range starts at
\* max(0, height - depth - 1) and ends at height: for depth >= height the
\* start is 0, and start <= end always.
C24_DepthRangeClamped ==
    DepthQueried =>
        /\ Queried[2] = res.height
        /\ Queried[1] = depthStartClamped(res.height, ParseUint(res.req.depth).u)
        /\ Cmp(Queried[1], Queried[2]) <= 0

\* C25: a handler writes exactly one response per request: after an error
\* response it makes no call into the renter or the wallet and writes no
\* second response, and a category other than send or receive is answered
\* with an error.
C25_OneResponse ==
    res # None =>
        /\ Len(Events("WriteError")) + Len(Events("WriteJSON")) = 1
        /\ Events("WriteError") # <<>> => res.log[Len(res.log)].ev = "WriteError"
        /\ (/\ res.handler = "walletTransactionsHandler"
            /\ res.req.depth = <<>>
            /\ res.req.startheight = <<>>
            /\ res.req.endheight = <<>>
            /\ res.req.category = <<"x">>) => Events("WriteError") # <<>>

-----------------------------------------------------------------------------
(* The handlers of the pool configuration (SpecPool).                      *)

\* WriteSuccess(w).
WriteSuccess(log) == Append(log, [ev |-> "WriteSuccess", what |-> "response"])

\* scanAddress: an address is written in hexadecimal digits.
scanAddress(t) ==
    IF t # <<>> /\ \A k \in 1..Len(t) :
                      t[k] \in DOMAIN DigitValue \cup {"a", "b", "c", "d", "e", "f"}
    THEN [err |-> FALSE, h |-> t]
    ELSE [err |-> TRUE, h |-> <<>>]

\* uint64(x) for an int x.
Uint64Of(x) ==
    IF x >= 0 THEN BFromNat(x) ELSE Sub(BShl(<<1>>, 64), BFromNat(0 - x))

\* api.pool.SetInternalSettings(settings): the settings of the pool after
\* the call, which fails or stores the settings.
SetInternalSettings(stored, s, fail) == IF fail THEN stored ELSE s

\* A parameter did not parse: return modules.PoolInternalSettings{}, nil.
parseFailed(stored) ==
    [settings |-> ZeroPoolSettings, err |-> FALSE, stored |-> stored]

\* The end of parsePoolSettings: the settings are set, and returned.
parseSet(s, stored, fail) ==
    [settings |-> s, err |-> fail,
     stored |-> SetInternalSettings(stored, s, fail)]

\* The parameter dbconnection.
parseDBConnection(s, req, stored, fail) ==
    IF req.dbconnection = <<>> THEN parseSet(s, stored, fail)
    ELSE parseSet([s EXCEPT !.PoolDBConnection = req.dbconnection],
                  stored, fail)

\* The parameter poolid.
parsePoolID(s, req, stored, fail) ==
    IF req.poolid = <<>> THEN parseDBConnection(s, req, stored, fail)
    ELSE IF ScanSigned(req.poolid).err THEN parseFailed(stored)
    ELSE parseDBConnection([s EXCEPT !.PoolID = Uint64Of(ScanSigned(req.poolid).i)],
                           req, stored, fail)

\* The parameter name.
parseName(s, req, stored, fail) ==
    IF req.name = <<>> THEN parsePoolID(s, req, stored, fail)
    ELSE parsePoolID([s EXCEPT !.PoolName = req.name], req, stored, fail)

\* The parameter networkport.
parseNetworkPort(s, req, stored, fail) ==
    IF req.networkport = <<>> THEN parseName(s, req, stored, fail)
    ELSE IF ScanSigned(req.networkport).err THEN parseFailed(stored)
    ELSE parseName([s EXCEPT !.PoolNetworkPort = ScanSigned(req.networkport).i],
                   req, stored, fail)

\* API.parsePoolSettings: the settings returned, whether an error is
\* returned, and the settings of the pool after the call.
parsePoolSettings(req, stored, fail) ==
    IF req.poolwallet = <<>> THEN parseNetworkPort(stored, req, stored, fail)
    ELSE IF scanAddress(req.poolwallet).err THEN parseFailed(stored)
    ELSE parseNetworkPort([stored EXCEPT
                               !.PoolWallet = scanAddress(req.poolwallet).h],
                          req, stored, fail)

\* poolConfigHandlerPOST after parsePoolSettings returned p.
poolPost(p, fail) ==
    IF p.err
    THEN [log |-> WriteError(<<>>, "error parsing pool settings"),
          stored |-> p.stored]
    ELSE IF fail
    THEN [log |-> WriteError(<<>>, "SetInternalSettings failed"),
          stored |-> p.stored]
    ELSE [log |-> WriteSuccess(<<>>),
          stored |-> SetInternalSettings(p.stored, p.settings, FALSE)]

\* API.poolConfigHandlerPOST; fail names the call of SetInternalSettings
\* that fails.
poolConfigHandlerPOST(req, stored, fail) ==
    poolPost(parsePoolSettings(req, stored, fail = "first"), fail = "second")

\* poolConfigHandler after parsePoolSettings returned p.
poolGet(p) ==
    IF p.err
    THEN [log |-> WriteError(<<>>, "error parsing pool settings"),
          stored |-> p.stored]
    ELSE [log |-> WriteJSON(<<>>), stored |-> p.stored]

\* API.poolConfigHandler.
poolConfigHandler(req, stored, fail) ==
    poolGet(parsePoolSettings(req, stored, fail = "first"))

\* The requests to /pool/config.
PoolRequests ==
    [poolwallet : {<<>>, <<"a", "1">>, <<"z">>},
     networkport : {<<>>, <<"5">>, <<"x">>},
     name : {<<>>, <<"n">>},
     poolid : {<<>>, <<"7">>, <<"x">>},
     dbconnection : {<<>>, <<"d">>}]

\* The settings of the pool before the request.
StoredPoolSettings ==
    {ZeroPoolSettings,
     [PoolName |-> <<"p">>, PoolWallet |-> <<"b", "2">>,
      PoolNetworkPort |-> 3333, PoolID |-> BFromNat(1),
      PoolDBConnection |-> <<"c">>]}

\* A POST request to /pool/config is served.
PoolConfigHandlerPOST(req, fail) ==
    /\ res = None
    /\ res' = [handler |-> "poolConfigHandlerPOST", req |-> req,
               log |-> poolConfigHandlerPOST(req, poolSettings, fail).log]
    /\ prev' = [field |-> "poolSettings", settings |-> poolSettings]
    /\ poolSettings' = poolConfigHandlerPOST(req, poolSettings, fail).stored
    /\ UNCHANGED <<release, blockHeight, allowance, entry, expected,
                   activeHosts, renterVars, serverVars, envVars>>

\* A GET request to /pool/config is served.
PoolConfigHandler(req, fail) ==
    /\ res = None
    /\ res' = [handler |-> "poolConfigHandler", req |-> req,
               log |-> poolConfigHandler(req, poolSettings, fail).log]
    /\ prev' = [field |-> "poolSettings", settings |-> poolSettings]
    /\ poolSettings' = poolConfigHandler(req, poolSettings, fail).stored
    /\ UNCHANGED <<release, blockHeight, allowance, entry, expected,
                   activeHosts, renterVars, serverVars, envVars>>

InitPool ==
    /\ release = "standard"
    /\ blockHeight = 100
    /\ allowance = DefaultAllowance
    /\ entry = DefaultEntry
    /\ expected = expectedStorage
    /\ res = None
    /\ prev = None
    /\ activeHosts = <<>>
    /\ RenterUnset
    /\ ServerUnset
    /\ EnvUnset
    /\ poolSettings \in StoredPoolSettings

NextPool ==
    \/ \E req \in PoolRequests, fail \in {"none", "first", "second"} :
            PoolConfigHandlerPOST(req, fail)
    \/ \E req \in PoolRequests, fail \in {"none", "first"} :
            PoolConfigHandler(req, fail)

SpecPool == InitPool /\ [][NextPool]_vars

\* One of poolwallet, networkport and poolid of the request served does not
\* parse.
PoolParseFails ==
    \/ res.req.poolwallet # <<>> /\ scanAddress(res.req.poolwallet).err
    \/ res.req.networkport # <<>> /\ ScanSigned(res.req.networkport).err
    \/ res.req.poolid # <<>> /\ ScanSigned(res.req.poolid).err

\* C26: when poolwallet, networkport or poolid fails to parse,
\* poolConfigHandlerPOST answers with an error and leaves the settings of
\* the pool as they were; poolConfigHandler never changes the settings.
C26_PoolSettingsKept ==
    res # None =>
        /\ (res.handler = "poolConfigHandlerPOST" /\ PoolParseFails) =>
              /\ res.log[Len(res.log)].ev = "WriteError"
              /\ poolSettings = prev.settings
        /\ res.handler = "poolConfigHandler" => poolSettings = prev.settings

====
